---- MODULE Spec2Model ----
(***************************************************************************)
(* A model of the activity pipeline of open-dev-activity: the working-time *)
(* calculator, the issue timeline processor, the connectors' window        *)
(* filters, the dedup-key generator and the upsert into the activities     *)
(* table.                                                                  *)
(*                                                                         *)
(* Instants are integers: milliseconds since Monday 2026-01-05T00:00:00Z.  *)
(* The process runs with TZ=UTC, so dayjs's local day is the UTC day.      *)
(* The empty string stands for a JavaScript value that is undefined or ''  *)
(* (the code only ever tests such values for truthiness), and the number 0 *)
(* for a missing number.                                                   *)
(***************************************************************************)
EXTENDS Integers, Sequences, FiniteSets, TLC

VARIABLES
    \* ---- the issue timeline (commands/fetch-issues.ts processItem) ----
    cal,              \* the WorkingTimeConfig read from the environment
    item,             \* the ProjectV2Item: [createdAt, events]
    reportToDate,     \* the report cutoff handed to processItem
    processed,        \* the ProcessedIssue returned: [history, statusDurations]
    tlPc,             \* "off" | "input" | "done"
    \* ---- two activities and their dedup keys (activity-repository.ts) ----
    actA, actB,       \* two UserActivity records
    keyA, keyB,       \* generateActivityKey of each, "" before it has run
    keyPc,            \* "off" | "input" | "done"
    \* ---- the sync pipeline (commands/sync-activities.ts) ----
    ghIssue,          \* the project item upstream: [number, title, url, updatedAt, events]
    ghPR,             \* the pull request upstream
    gitLog,           \* the commits of the local repositories, in git log's order
    table,            \* the rows of the activities table
    dbNow,            \* the database clock: NOW() of the next statement
    syncPc,           \* "off" | "world" | "idle" | "issues" | "prs" | "commits" | "save"
    window,           \* [from, to] of the sync under way
    clock,            \* the wall clock's time of day when the sync under way started
    results,          \* ConnectorResult[] of the sync under way
    allActivities,    \* UserActivity[] collected by the sync under way
    saveResult,       \* what ActivityService.saveActivities returned last
    lastWrite,        \* the last upsert statement that succeeded: [rows, now, n]
    runs,             \* one record per finished sync (kept for the properties)
    singles,          \* number of ACTIVITY_CREATED events handled
    exitStatus,       \* <<>> while the command runs, then <<its exit status>>
    \* ---- the reviews of one pull request (processPR, both versions) ----
    rvPR,             \* the PullRequestNode upstream
    rvInfo,           \* what processPR of core/pr-processor.ts returned
    rvCmdInfo,        \* what processPR of commands/fetch-prs.ts returned
    rvPc,             \* "off" | "input" | "done"
    \* ---- one call of calculateWorkingTime (working-time.ts) ----
    wtStart, wtEnd,   \* the two instants handed in
    wtCal,            \* the WorkingTimeConfig handed in
    wtResult,         \* the milliseconds returned
    wtPc,             \* "off" | "input" | "done"
    \* ---- one issue through both processItem functions ----
    isoItem,          \* the issue upstream: [createdAt, events]
    isoCmd,           \* what processItem of commands/fetch-issues.ts returned
    isoCore,          \* what processItem of core/issue-processor.ts returned
    isoPc,            \* "off" | "input" | "done"
    \* ---- two syncs writing to one table at the same time ----
    cwTable,          \* the rows of the activities table
    cwNow,            \* the database clock
    cwWriters,        \* per sync: [rows, next, now, state] of its INSERT statement
    \* ---- one list of activities handed to the database layer ----
    bwList,           \* the UserActivity[] submitted
    bwTable,          \* the rows of the activities table afterwards
    bwService,        \* what ActivityService.saveActivities returned
    bwHandler,        \* what the ACTIVITIES_BATCH handler got from the repository
    bwPc,             \* "off" | "input" | "service" | "handler"
    \* ---- the event bus (core/event-bus.ts) ----
    ebHandlers,       \* the Map of the bus: event type -> array of handlers
    ebSubs,           \* the unsubscribe functions returned so far, in order
    ebPub,            \* the publish under way or last finished
    ebPc              \* "off" | "on"

tlVars == <<cal, item, reportToDate, processed, tlPc>>
keyVars == <<actA, actB, keyA, keyB, keyPc>>

worldVars == <<ghIssue, ghPR, gitLog>>
syncVars == <<worldVars, table, dbNow, syncPc, window, clock, results, allActivities,
              saveResult, lastWrite, runs, singles, exitStatus>>

rvVars == <<rvPR, rvInfo, rvCmdInfo, rvPc>>

wtVars == <<wtStart, wtEnd, wtCal, wtResult, wtPc>>

isoVars == <<isoItem, isoCmd, isoCore, isoPc>>

cwVars == <<cwTable, cwNow, cwWriters>>

bwVars == <<bwList, bwTable, bwService, bwHandler, bwPc>>

ebVars == <<ebHandlers, ebSubs, ebPub, ebPc>>

vars == <<tlVars, keyVars, syncVars, rvVars, wtVars, isoVars, cwVars, bwVars, ebVars>>

\* what the actions of one specification leave alone
exceptTl == <<keyVars, syncVars, rvVars, wtVars, isoVars, cwVars, bwVars, ebVars>>
exceptKey == <<tlVars, syncVars, rvVars, wtVars, isoVars, cwVars, bwVars, ebVars>>
exceptSync == <<tlVars, keyVars, rvVars, wtVars, isoVars, cwVars, bwVars, ebVars>>
exceptRv == <<tlVars, keyVars, syncVars, wtVars, isoVars, cwVars, bwVars, ebVars>>
exceptWt == <<tlVars, keyVars, syncVars, rvVars, isoVars, cwVars, bwVars, ebVars>>
exceptIso == <<tlVars, keyVars, syncVars, rvVars, wtVars, cwVars, bwVars, ebVars>>
exceptCw == <<tlVars, keyVars, syncVars, rvVars, wtVars, isoVars, bwVars, ebVars>>
exceptBw == <<tlVars, keyVars, syncVars, rvVars, wtVars, isoVars, cwVars, ebVars>>
exceptEb == <<tlVars, keyVars, syncVars, rvVars, wtVars, isoVars, cwVars, bwVars>>

-----------------------------------------------------------------------------
(* Time *)

MsPerSecond == 1000
MsPerHour == 60 * 60 * MsPerSecond
MsPerDay == 24 * MsPerHour

\* An instant on day d (0 = Mon 2026-01-05) at h:m:s.ms
At(d, h, m, s, ms) == d * MsPerDay + h * MsPerHour + m * 60 * MsPerSecond + s * MsPerSecond + ms

DayOf(t) == t \div MsPerDay
StartOfDay(t) == DayOf(t) * MsPerDay
\* dayjs .day(): 0 = Sunday .. 6 = Saturday; day 0 of the model is a Monday
Weekday(t) == (DayOf(t) + 1) % 7
IsSameDay(a, b) == DayOf(a) = DayOf(b)

Pad2(n) == IF n < 10 THEN "0" \o ToString(n) ELSE ToString(n)
\* dayjs .format('YYYY-MM-DD') and the date half of toISOString(), for January 2026
DateStr(t) == "2026-01-" \o Pad2(5 + DayOf(t))
\* the HH:mm:ss of toISOString(): split('T')[1].split('.')[0] drops the milliseconds
TimeStr(t) ==
    LET r == t % MsPerDay
    IN  Pad2(r \div MsPerHour) \o ":" \o Pad2((r % MsPerHour) \div (60 * MsPerSecond))
        \o ":" \o Pad2((r % (60 * MsPerSecond)) \div MsPerSecond)

-----------------------------------------------------------------------------
(* working-time.ts *)

\* the defaults with Saturday as a sixth working day
DefaultConfig_SixDays ==
    [startHour |-> 9, endHour |-> 17, workingDays |-> {1, 2, 3, 4, 5, 6}, holidays |-> {}]

DefaultConfig ==
    [startHour |-> 9, endHour |-> 17, workingDays |-> {1, 2, 3, 4, 5}, holidays |-> {}]

\* the loop without the test of line 53: an empty overlap is added as it is
RECURSIVE WorkingTimeLoop_NoOverlapTest(_, _, _, _)
WorkingTimeLoop_NoOverlapTest(current, endDate, totalMs, config) ==
    IF ~(current < endDate \/ IsSameDay(current, endDate))
    THEN totalMs
    ELSE
        LET isWorkingDay == /\ Weekday(current) \in config.workingDays
                            /\ DateStr(current) \notin config.holidays
            dayStart == StartOfDay(current) + config.startHour * MsPerHour
            dayEnd == StartOfDay(current) + config.endHour * MsPerHour
            overlapStart == IF current > dayStart THEN current ELSE dayStart
            overlapEnd == IF endDate < dayEnd THEN endDate ELSE dayEnd
            added == IF isWorkingDay THEN overlapEnd - overlapStart ELSE 0
            nextDay == StartOfDay(current) + MsPerDay
        IN  IF IsSameDay(current, endDate)
            THEN totalMs + added
            ELSE WorkingTimeLoop_NoOverlapTest(nextDay, endDate, totalMs + added, config)

\* the loop without the holiday test of line 44
RECURSIVE WorkingTimeLoop_NoHolidays(_, _, _, _)
WorkingTimeLoop_NoHolidays(current, endDate, totalMs, config) ==
    IF ~(current < endDate \/ IsSameDay(current, endDate))
    THEN totalMs
    ELSE
        LET isWorkingDay == Weekday(current) \in config.workingDays
            dayStart == StartOfDay(current) + config.startHour * MsPerHour
            dayEnd == StartOfDay(current) + config.endHour * MsPerHour
            overlapStart == IF current > dayStart THEN current ELSE dayStart
            overlapEnd == IF endDate < dayEnd THEN endDate ELSE dayEnd
            added == IF isWorkingDay /\ overlapStart < overlapEnd
                     THEN overlapEnd - overlapStart
                     ELSE 0
            nextDay == StartOfDay(current) + MsPerDay
        IN  IF IsSameDay(current, endDate)
            THEN totalMs + added
            ELSE WorkingTimeLoop_NoHolidays(nextDay, endDate, totalMs + added, config)

\* the loop without the clamp of the day's window to endDate (line 51)
RECURSIVE WorkingTimeLoop_NoEndClamp(_, _, _, _)
WorkingTimeLoop_NoEndClamp(current, endDate, totalMs, config) ==
    IF ~(current < endDate \/ IsSameDay(current, endDate))
    THEN totalMs
    ELSE
        LET isWorkingDay == /\ Weekday(current) \in config.workingDays
                            /\ DateStr(current) \notin config.holidays
            dayStart == StartOfDay(current) + config.startHour * MsPerHour
            dayEnd == StartOfDay(current) + config.endHour * MsPerHour
            overlapStart == IF current > dayStart THEN current ELSE dayStart
            added == IF isWorkingDay /\ overlapStart < dayEnd
                     THEN dayEnd - overlapStart
                     ELSE 0
            nextDay == StartOfDay(current) + MsPerDay
        IN  IF IsSameDay(current, endDate)
            THEN totalMs + added
            ELSE WorkingTimeLoop_NoEndClamp(nextDay, endDate, totalMs + added, config)

RECURSIVE WorkingTimeLoop(_, _, _, _)
WorkingTimeLoop(current, endDate, totalMs, config) ==
    IF ~(current < endDate \/ IsSameDay(current, endDate))
    THEN totalMs
    ELSE
        LET isWorkingDay == /\ Weekday(current) \in config.workingDays
                            /\ DateStr(current) \notin config.holidays
            dayStart == StartOfDay(current) + config.startHour * MsPerHour
            dayEnd == StartOfDay(current) + config.endHour * MsPerHour
            overlapStart == IF current > dayStart THEN current ELSE dayStart
            overlapEnd == IF endDate < dayEnd THEN endDate ELSE dayEnd
            added == IF isWorkingDay /\ overlapStart < overlapEnd
                     THEN overlapEnd - overlapStart
                     ELSE 0
            nextDay == StartOfDay(current) + MsPerDay
        IN  IF IsSameDay(current, endDate)
            THEN totalMs + added
            ELSE WorkingTimeLoop(nextDay, endDate, totalMs + added, config)

calculateWorkingTime(start, end, config) ==
    IF end < start THEN 0 ELSE WorkingTimeLoop(start, end, 0, config)

-----------------------------------------------------------------------------
(* commands/fetch-issues.ts: processItem *)

\* a node of issue.timelineItems
RawEvent(typename, createdAt, actor, col, prev, status, label, assignee) ==
    [typename |-> typename, createdAt |-> createdAt, actor |-> actor,
     projectColumnName |-> col, previousStatus |-> prev, status |-> status,
     label |-> label, assignee |-> assignee]

StatusNames == {"Todo", "Doing"}

\* `${event.previousStatus} -> ${event.status}`
ArrowValue(prev, next) == prev \o " -> " \o next
\* value.includes(' -> ') and value.split(' -> '), over the status names of the model
ArrowPairs == {pr \in StatusNames \X StatusNames : TRUE}
IncludesArrow(v) == \E pr \in ArrowPairs : v = ArrowValue(pr[1], pr[2])
SplitArrow(v) == CHOOSE pr \in ArrowPairs : v = ArrowValue(pr[1], pr[2])

NoItem == <<>>
\* `at` is not a field of the code's record: it is the place of the raw event
\* in the timeline, for the properties to refer to (0 where it is not tracked)
HistoryItem(type, action, value, event) ==
    [type |-> type, action |-> action, value |-> value,
     when |-> event.createdAt,
     who |-> IF event.actor # "" THEN event.actor ELSE "Unknown",
     durationMs |-> 0, at |-> 0]

\* the chain with a final else that pushes an item for any other kind
HistoryItemsOf_KeepUnknown(event) ==
    IF event.typename \in {"MovedColumnsInProjectEvent", "ProjectV2ItemStatusChangedEvent"}
    THEN <<HistoryItem("status", "changed status to", event.projectColumnName, event)>>
    ELSE <<HistoryItem("label", "added label", event.label, event)>>

\* the if/else-if chain over event.__typename; an unrecognised kind pushes nothing
HistoryItemsOf(event) ==
    CASE event.typename = "MovedColumnsInProjectEvent" ->
           <<HistoryItem("status", "changed status to", event.projectColumnName, event)>>
      [] event.typename = "LabeledEvent" ->
           <<HistoryItem("label", "added label", event.label, event)>>
      [] event.typename = "ClosedEvent" ->
           <<HistoryItem("state_change", "closed", "", event)>>
      [] event.typename = "ReopenedEvent" ->
           <<HistoryItem("state_change", "reopened", "", event)>>
      [] event.typename = "AssignedEvent" ->
           <<HistoryItem("assignment", "assigned", event.assignee, event)>>
      [] event.typename = "UnassignedEvent" ->
           <<HistoryItem("assignment", "unassigned", event.assignee, event)>>
      [] event.typename = "ProjectV2ItemStatusChangedEvent" ->
           <<HistoryItem("status", "changed status",
                         ArrowValue(event.previousStatus, event.status), event)>>
      [] OTHER -> NoItem

RECURSIVE BuildHistory(_)
BuildHistory(events) ==
    IF events = <<>> THEN <<>>
    ELSE HistoryItemsOf(Head(events)) \o BuildHistory(Tail(events))

\* Array.prototype.sort with (a, b) => when(a) - when(b): stable, ascending.
\* The sequences sorted here hold positions of `history`, which stand for the
\* object references the code's arrays share.
RECURSIVE InsertByWhen(_, _, _)
InsertByWhen(sorted, i, history) ==
    IF sorted = <<>> THEN <<i>>
    ELSE IF history[Head(sorted)].when <= history[i].when
         THEN <<Head(sorted)>> \o InsertByWhen(Tail(sorted), i, history)
         ELSE <<i>> \o sorted

RECURSIVE SortByWhen(_, _)
SortByWhen(idxs, history) ==
    IF idxs = <<>> THEN <<>>
    ELSE InsertByWhen(SortByWhen(SubSeq(idxs, 1, Len(idxs) - 1), history),
                      idxs[Len(idxs)], history)

RECURSIVE FilterStatus(_, _)
FilterStatus(history, i) ==
    IF i > Len(history) THEN <<>>
    ELSE (IF history[i].type = "status" THEN <<i>> ELSE <<>>) \o FilterStatus(history, i + 1)

\* statusDurations.find(...) then += or push
AddDuration(statusDurations, status, durationMs) ==
    IF \E k \in 1..Len(statusDurations) : statusDurations[k].status = status
    THEN LET k == CHOOSE j \in 1..Len(statusDurations) :
                    /\ statusDurations[j].status = status
                    /\ \A h \in 1..(j - 1) : statusDurations[h].status # status
         IN  [statusDurations EXCEPT ![k].durationMs = @ + durationMs]
    ELSE Append(statusDurations, [status |-> status, durationMs |-> durationMs])

InitialStatus(history, statusHistory) ==
    IF statusHistory # <<>>
       /\ history[statusHistory[1]].action = "changed status"
       /\ IncludesArrow(history[statusHistory[1]].value)
    THEN SplitArrow(history[statusHistory[1]].value)[1]
    ELSE "Initial"

\* statusHistory.forEach(...): st = [history, statusDurations, lastTime, currentStatus]
RECURSIVE WalkStatusHistory(_, _, _)
WalkStatusHistory(statusHistory, st, config) ==
    IF statusHistory = <<>> THEN st
    ELSE
        LET i == Head(statusHistory)
            event == st.history[i]
            eventTime == event.when
            durationMs == calculateWorkingTime(st.lastTime, eventTime, config)
            nextStatus ==
                IF event.action = "changed status" /\ IncludesArrow(event.value)
                THEN SplitArrow(event.value)[2]
                ELSE IF event.value # "" THEN event.value ELSE st.currentStatus
            st2 == [history |-> IF durationMs > 0
                                THEN [st.history EXCEPT ![i].durationMs = durationMs]
                                ELSE st.history,
                    statusDurations |-> IF durationMs > 0
                                        THEN AddDuration(st.statusDurations,
                                                         st.currentStatus, durationMs)
                                        ELSE st.statusDurations,
                    lastTime |-> eventTime,
                    currentStatus |-> nextStatus]
        IN  WalkStatusHistory(Tail(statusHistory), st2, config)

processItem(it, toDate, config) ==
    LET history == BuildHistory(it.events)
        statusHistory == SortByWhen(FilterStatus(history, 1), history)
        st0 == [history |-> history, statusDurations |-> <<>>,
                lastTime |-> it.createdAt,
                currentStatus |-> InitialStatus(history, statusHistory)]
        st == WalkStatusHistory(statusHistory, st0, config)
        finalDurationMs == calculateWorkingTime(st.lastTime, toDate, config)
    IN  [history |-> st.history,
         statusDurations |-> IF finalDurationMs > 0
                             THEN AddDuration(st.statusDurations, st.currentStatus,
                                              finalDurationMs)
                             ELSE st.statusDurations]

-----------------------------------------------------------------------------
(* core/issue-processor.ts *)

\* processTimelineEvent: null (here <<>>) without __typename or createdAt, and
\* for a kind the switch does not know
processTimelineEvent(event, at) ==
    IF event.typename = "" \/ event.createdAt = 0 THEN <<>>
    ELSE
        LET base(type, action, value) ==
                [type |-> type, action |-> action, value |-> value,
                 when |-> event.createdAt,
                 who |-> IF event.actor # "" THEN event.actor ELSE "unknown",
                 durationMs |-> 0, at |-> at]
        IN  CASE event.typename = "ClosedEvent" -> <<base("state_change", "closed", "closed")>>
              [] event.typename = "ReopenedEvent" -> <<base("state_change", "reopened", "open")>>
              [] event.typename = "LabeledEvent" -> <<base("label", "labeled", event.label)>>
              [] event.typename = "UnlabeledEvent" -> <<base("label", "unlabeled", event.label)>>
              [] event.typename = "AssignedEvent" ->
                   <<base("assignment", "assigned", event.assignee)>>
              [] event.typename = "UnassignedEvent" ->
                   <<base("assignment", "unassigned", event.assignee)>>
              [] OTHER -> <<>>

RECURSIVE TimelineHistory(_, _)
TimelineHistory(events, i) ==
    IF i > Len(events) THEN <<>>
    ELSE processTimelineEvent(events[i], i) \o TimelineHistory(events, i + 1)

\* processedIssue.history.sort((a, b) => when(a) - when(b))
SortedHistory(history) ==
    LET order == SortByWhen([i \in 1..Len(history) |-> i], history)
    IN  [k \in 1..Len(history) |-> history[order[k]]]

\* processItem of core/issue-processor.ts: statusHistory is never filled, so
\* calculateStatusDurations always gets the empty list and returns []
IssueProcessor_processItem(issue) ==
    [number |-> issue.number,
     title |-> IF issue.title # "" THEN issue.title ELSE "Untitled",
     url |-> issue.url,
     updatedAt |-> issue.updatedAt,
     history |-> SortedHistory(TimelineHistory(issue.events, 1)),
     statusDurations |-> <<>>]

-----------------------------------------------------------------------------
(* UserActivity and the dedup key: infrastructure/activity-repository.ts *)

EmptyMeta ==
    [hash |-> "", issueNumber |-> 0, prNumber |-> 0, commentId |-> "", reviewId |-> "",
     action |-> "", value |-> "", durationMs |-> 0, lifetimeMs |-> 0, state |-> ""]

\* src is not a field of the code's record: it names the raw event the activity
\* was made from, for the properties to refer to
Activity(type, author, date, repository, title, url, description, meta, src) ==
    [type |-> type, author |-> author, date |-> date, repository |-> repository,
     title |-> title, url |-> url, description |-> description, meta |-> meta,
     src |-> src]

\* createHash('sha256').update(s).digest('hex'), for the strings the model hashes
Sha256Hex(s) ==
    CASE s = "Todo" -> "4ff402d768211082ae1a70ae586a4c7a907c57d66467279a71283219968c04bc"
      [] s = "Doing" -> "cd742c535cda5b61bb27f7c2a84b00f9c0b549782c4e602b07171a6dc865ecb6"
      [] s = "Todo -> Doing" -> "7e0f6d9ea7b2bacc3edd167432a708412a02a47e19e1fcb61f9bc6bf90427e6f"
      [] s = "Doing -> Todo" -> "b347ed2385bb72fe9eeb807e23689f03971b61d01ce1b3381e125694fa2c2676"
      [] s = "Todo -> Todo" -> "a4b968c7ea61fb01017c6bdaa91afbaa459ba69d03842bd66a7e6e50ac52a70c"
      [] s = "Doing -> Doing" -> "1af1ac77bdbf9f19f90d839a4a31d306019ab3eed716f5c1a9ade19d4b4c99c1"
      [] s = "bug" -> "ecb53f367b3541da3a14236d9a091f9bcc7a9903953f36577c2664fdd2a68a55"
      [] s = "ui" -> "d3ef7de562f9a4a34a9a0b05a112955fdecdd0102c3faae5eeb03a195091a5e4"
      [] s = "bob" -> "81b637d8fcd2c6da6359e6963113a1170de795e4b725b84d1e0b4cfd9ec58ce9"
      [] s = "closed" -> "c3eefb58d7c42440a9d4abec51d629544d635a6d936ff3c4d3fca96d611b3cf3"
      [] s = "open" -> "2348f998744212575d85959674f9607ab26f67708a917157472832386337c904"
      [] s = "3f2a9c1" -> "3e72e9aed817583a5184d182ffc2fdc46f04b6ef12c110fe0433046240a01133"
      [] s = "9b8d7e6" -> "39998c18f75b8aed149b295e88fd52c504d3447cb0bb5cad5c5778fad7be9243"

\* s.substring(0, n)
Substring0(s, n) == IF Len(s) > n THEN SubSeq(s, 1, n) ELSE s

MaxKeyLength == 500

\* a variant that identifies a record by its title first
UniqueIdOf_TitleFirst(activity) ==
    IF activity.meta.hash # "" THEN activity.meta.hash
    ELSE IF activity.title # "" THEN activity.title
    ELSE IF activity.meta.issueNumber # 0 THEN ToString(activity.meta.issueNumber)
    ELSE IF activity.meta.prNumber # 0 THEN ToString(activity.meta.prNumber)
    ELSE "unknown"

\* meta.hash || meta.issueNumber || meta.prNumber || meta.commentId ||
\* meta.reviewId || url || title || 'unknown', as the template prints it
UniqueIdOf(activity) ==
    IF activity.meta.hash # "" THEN activity.meta.hash
    ELSE IF activity.meta.issueNumber # 0 THEN ToString(activity.meta.issueNumber)
    ELSE IF activity.meta.prNumber # 0 THEN ToString(activity.meta.prNumber)
    ELSE IF activity.meta.commentId # "" THEN activity.meta.commentId
    ELSE IF activity.meta.reviewId # "" THEN activity.meta.reviewId
    ELSE IF activity.url # "" THEN activity.url
    ELSE IF activity.title # "" THEN activity.title
    ELSE "unknown"

\* activity.type.startsWith('issue_')
StartsWithIssue(type) == Len(type) >= 6 /\ SubSeq(type, 1, 6) = "issue_"

\* a variant that leaves the hash of the changed value out
ActionSuffixOf_NoValueHash(activity) ==
    IF StartsWithIssue(activity.type) /\ activity.meta.action # ""
    THEN ":" \o activity.meta.action
    ELSE ""

ActionSuffixOf(activity) ==
    IF StartsWithIssue(activity.type) /\ activity.meta.action # ""
    THEN LET value == activity.meta.value
             valueHash == IF value # "" THEN Substring0(Sha256Hex(value), 8) ELSE ""
         IN  ":" \o activity.meta.action \o (IF valueHash # "" THEN ":" \o valueHash ELSE "")
    ELSE ""

generateActivityKey(activity) ==
    LET uniqueId == UniqueIdOf(activity)
        dateStr == DateStr(activity.date)
        timeStr == TimeStr(activity.date)
        actionSuffix == ActionSuffixOf(activity)
        essential == activity.type \o ":" \o activity.author \o ":" \o dateStr \o " "
                     \o timeStr \o ":" \o activity.repository \o ":"
        remaining == uniqueId \o actionSuffix
        key == essential \o remaining
    IN  IF Len(key) > MaxKeyLength
        THEN IF Len(essential) + Len(remaining) > MaxKeyLength
             THEN essential \o Substring0(Sha256Hex(remaining), 32)
             ELSE essential \o Substring0(remaining, MaxKeyLength - Len(essential))
        ELSE key

Invalid == [invalid |-> TRUE]

\* toNewActivity: throws (Invalid) without type, author, date or repository;
\* cuts the key and the varchar columns to the schema's lengths
toNewActivity(activity, uniqueKey) ==
    IF activity.type = "" \/ activity.author = "" \/ activity.date = 0
       \/ activity.repository = ""
    THEN Invalid
    ELSE [uniqueKey |-> Substring0(uniqueKey, MaxKeyLength),
          type |-> Substring0(activity.type, 50),
          author |-> Substring0(activity.author, 255),
          activityDate |-> activity.date,
          repository |-> Substring0(activity.repository, 500),
          url |-> activity.url,
          title |-> activity.title,
          description |-> activity.description,
          meta |-> activity.meta]

-----------------------------------------------------------------------------
(* The connectors' mapping of processed items to UserActivity *)

\* `${event.action} ${event.value || ''}`.trim()
DescriptionOf(event) ==
    IF event.value # "" THEN event.action \o " " \o event.value ELSE event.action

ActivityTypeOf(event) ==
    CASE event.type = "status" -> "issue_status_change"
      [] event.type = "label" -> "issue_labeling"
      [] event.type = "state_change" -> "issue_state_change"
      [] event.type = "assignment" -> "issue_assignment"
      [] OTHER -> "unknown"

\* activities.push({...}) of IssuesConnector.fetch and of the fetch-issues command
IssueActivity(pitem, event, repository, src) ==
    Activity(ActivityTypeOf(event), event.who, event.when, repository,
             pitem.title, pitem.url, DescriptionOf(event),
             [EmptyMeta EXCEPT !.issueNumber = pitem.number, !.action = event.action,
                               !.value = event.value, !.durationMs = event.durationMs],
             src)

\* the raw createdAt string of the upstream API, as `${...}` prints it
IsoString(t) ==
    LET ms == t % MsPerSecond
    IN  DateStr(t) \o "T" \o TimeStr(t)
        \o (IF ms = 0 THEN "" ELSE "." \o (IF ms < 100 THEN "0" ELSE "") \o Pad2(ms)) \o "Z"

-----------------------------------------------------------------------------
(* core/pr-processor.ts: processPR *)

\* review.state.toLowerCase()
ToLowerCase(state) ==
    CASE state = "APPROVED" -> "approved"
      [] state = "CHANGES_REQUESTED" -> "changes_requested"
      [] state = "COMMENTED" -> "commented"
      [] OTHER -> state

\* nodes whose author is null are skipped; `at` keeps the node's place in the
\* raw list for the properties to refer to
RECURSIVE ReviewsOf(_, _)
ReviewsOf(nodes, i) ==
    IF i > Len(nodes) THEN <<>>
    ELSE (IF nodes[i].author # ""
          THEN <<[who |-> nodes[i].author, when |-> nodes[i].createdAt,
                  state |-> ToLowerCase(nodes[i].state), body |-> nodes[i].body,
                  at |-> i]>>
          ELSE <<>>) \o ReviewsOf(nodes, i + 1)

RECURSIVE CommentsOf(_, _)
CommentsOf(nodes, i) ==
    IF i > Len(nodes) THEN <<>>
    ELSE (IF nodes[i].author # ""
          THEN <<[who |-> nodes[i].author, when |-> nodes[i].createdAt,
                  text |-> nodes[i].body, at |-> i]>>
          ELSE <<>>) \o CommentsOf(nodes, i + 1)

\* xs.sort((a, b) => when(a) - when(b))
SortedByWhen(xs) ==
    LET order == SortByWhen([i \in 1..Len(xs) |-> i], xs)
    IN  [k \in 1..Len(xs) |-> xs[order[k]]]

\* requestedChangesBy when it is undefined
NoRequester == [who |-> "", when |-> 0]

\* reviews.filter(r => r.state === 'changes_requested' || r.state === 'request_changes')
RequestChangesReviews(reviews) ==
    LET Requests(r) == r.state = "changes_requested" \/ r.state = "request_changes"
    IN  SelectSeq(reviews, Requests)

processPR(pr, toDate) ==
    LET endDate == IF pr.closedAt # 0 THEN pr.closedAt ELSE toDate
        reviews == SortedByWhen(ReviewsOf(pr.reviews, 1))
        requestChangesReviews == RequestChangesReviews(reviews)
        isRequestChanges == Len(requestChangesReviews) > 0
    IN  [number |-> pr.number, title |-> pr.title, url |-> pr.url,
         createdAt |-> pr.createdAt, closedAt |-> pr.closedAt,
         author |-> IF pr.author # "" THEN pr.author ELSE "unknown",
         reviews |-> reviews,
         comments |-> SortedByWhen(CommentsOf(pr.comments, 1)),
         isRequestChanges |-> isRequestChanges,
         requestedChangesBy |->
             IF isRequestChanges
             THEN [who |-> requestChangesReviews[1].who,
                   when |-> requestChangesReviews[1].when]
             ELSE NoRequester,
         lifetimeMs |-> endDate - pr.createdAt]

-----------------------------------------------------------------------------
(* commands/fetch-prs.ts: the review part of its own processPR *)

\* r.author?.login || 'Unknown'
LoginOf(node) == IF node.author # "" THEN node.author ELSE "Unknown"

\* the first forEach: the latest CHANGES_REQUESTED review of all
RECURSIVE LatestRequester(_, _, _)
LatestRequester(nodes, i, requestedChangesBy) ==
    IF i > Len(nodes) THEN requestedChangesBy
    ELSE LatestRequester(nodes, i + 1,
            IF /\ nodes[i].state = "CHANGES_REQUESTED"
               /\ (requestedChangesBy = NoRequester
                   \/ nodes[i].createdAt > requestedChangesBy.when)
            THEN [who |-> LoginOf(nodes[i]), when |-> nodes[i].createdAt]
            ELSE requestedChangesBy)

\* latestReviewPerUser: the entries [user, state, when] in the order the keys
\* were first set
RECURSIVE LatestReviewPerUser(_, _, _)
LatestReviewPerUser(nodes, i, latest) ==
    IF i > Len(nodes) THEN latest
    ELSE LET login == LoginOf(nodes[i])
             entry == [user |-> login, state |-> nodes[i].state,
                       when |-> nodes[i].createdAt]
             Has == \E k \in 1..Len(latest) : latest[k].user = login
         IN  LatestReviewPerUser(nodes, i + 1,
                IF ~Has THEN Append(latest, entry)
                ELSE [k \in 1..Len(latest) |->
                        IF latest[k].user = login /\ nodes[i].createdAt > latest[k].when
                        THEN entry ELSE latest[k]])

\* Object.entries(latestReviewPerUser).forEach: the latest entry still in
\* CHANGES_REQUESTED, latestDate starting at dayjs(0)
RECURSIVE LatestBlocking(_, _, _, _)
LatestBlocking(latest, k, latestDate, requestedChangesBy) ==
    IF k > Len(latest) THEN requestedChangesBy
    ELSE IF latest[k].state = "CHANGES_REQUESTED" /\ latest[k].when > latestDate
         THEN LatestBlocking(latest, k + 1, latest[k].when,
                             [who |-> latest[k].user, when |-> latest[k].when])
         ELSE LatestBlocking(latest, k + 1, latestDate, requestedChangesBy)

\* processPR of commands/fetch-prs.ts: isRequestChanges and requestedChangesBy
FetchPRs_processPR(pr) ==
    LET latest == LatestReviewPerUser(pr.reviews, 1, <<>>)
        isRequestChanges == \E k \in 1..Len(latest) : latest[k].state = "CHANGES_REQUESTED"
        first == LatestRequester(pr.reviews, 1, NoRequester)
    IN  [isRequestChanges |-> isRequestChanges,
         requestedChangesBy |->
             IF isRequestChanges THEN LatestBlocking(latest, 1, 0, first) ELSE first]

-----------------------------------------------------------------------------
(* connectors/prs-connector.ts and connectors/commits-connector.ts: the     *)
(* records pushed for one pull request comment, review and commit           *)

PRCreatedActivity(pr, repoName) ==
    Activity("pr_created", pr.author, pr.createdAt, repoName, pr.title, pr.url,
             "Created PR #" \o ToString(pr.number),
             [EmptyMeta EXCEPT !.prNumber = pr.number, !.lifetimeMs = pr.lifetimeMs],
             <<"pr", pr.number>>)

PRCommentActivity(pr, comment, repoName) ==
    Activity("pr_comment", comment.who, comment.when, repoName, pr.title, pr.url,
             comment.text,
             [EmptyMeta EXCEPT !.prNumber = pr.number,
                               !.commentId = ToString(pr.number) \o "-"
                                             \o IsoString(comment.when)],
             <<"comment", comment.at>>)

PRReviewActivity(pr, review, repoName) ==
    Activity("pr_review", review.who, review.when, repoName, pr.title, pr.url,
             IF review.body # "" THEN review.body ELSE review.state,
             [EmptyMeta EXCEPT !.prNumber = pr.number, !.state = review.state,
                               !.reviewId = ToString(pr.number) \o "-" \o review.who
                                            \o "-" \o IsoString(review.when)],
             <<"review", review.at>>)

\* commit.message.split('\n')[0]: the messages of the model have one line
CommitActivity(commit) ==
    Activity("commit", commit.author, commit.date, commit.repository,
             commit.message, "", commit.message,
             [EmptyMeta EXCEPT !.hash = commit.hash],
             <<"commit", commit.hash>>)

-----------------------------------------------------------------------------
(* The connectors' fetch, after the upstream call has returned *)

\* the value of a one-element set; The({e(x) : x \in {v}}) is e(v) with v
\* computed once, as a const binding of the code is
The(S) == CHOOSE x \in S : TRUE

\* xs.sort((a, b) => date(a) - date(b)) on a list of activities: stable
RECURSIVE InsertByDate(_, _)
InsertByDate(sorted, a) ==
    IF sorted = <<>> THEN <<a>>
    ELSE IF Head(sorted).date <= a.date
         THEN <<Head(sorted)>> \o InsertByDate(Tail(sorted), a)
         ELSE <<a>> \o sorted

\* no sort at all: the list as the connectors appended to it
SortByDate_Unsorted(acts) == acts

RECURSIVE SortByDate(_)
SortByDate(acts) ==
    IF acts = <<>> THEN <<>>
    ELSE The({InsertByDate(front, acts[Len(acts)]) :
                 front \in {SortByDate(SubSeq(acts, 1, Len(acts) - 1))}})

\* t.isAfter(fromDate) && t.isBefore(toDate)
IsInWindow(t, fromDate, toDate) == t > fromDate /\ t < toDate

\* the items kept by .filter(updated.isAfter(fromDate) && updated.isBefore(toDate))
ProcessedItems(items, fromDate, toDate) ==
    LET all == [i \in 1..Len(items) |-> IssueProcessor_processItem(items[i])]
        Kept(it) == IsInWindow(it.updatedAt, fromDate, toDate)
    IN  SelectSeq(all, Kept)

ValidHistory(pitem, fromDate, toDate) ==
    LET Valid(event) == IsInWindow(event.when, fromDate, toDate)
    IN  SelectSeq(pitem.history, Valid)

RECURSIVE IssueActivities(_, _, _, _)
IssueActivities(pitems, fromDate, toDate, repository) ==
    IF pitems = <<>> THEN <<>>
    ELSE LET valid == ValidHistory(Head(pitems), fromDate, toDate)
         IN  [k \in 1..Len(valid) |->
                IssueActivity(Head(pitems), valid[k], repository, <<"issue", valid[k].at>>)]
             \o IssueActivities(Tail(pitems), fromDate, toDate, repository)

IssuesConnector_fetch(items, fromDate, toDate) ==
    The({SortByDate(IssueActivities(processedItems, fromDate, toDate, "acme/Project-1")) :
         processedItems \in {ProcessedItems(items, fromDate, toDate)}})

\* the pull requests kept by the filter on createdAt, processed
ProcessedPRs(rawPRs, fromDate, toDate) ==
    LET Kept(p) == IsInWindow(p.createdAt, fromDate, toDate)
        kept == SelectSeq(rawPRs, Kept)
    IN  [i \in 1..Len(kept) |-> processPR(kept[i], toDate)]

RECURSIVE PRActivities(_, _, _, _)
PRActivities(prs, fromDate, toDate, repoName) ==
    IF prs = <<>> THEN <<>>
    ELSE LET p == Head(prs)
             InWin(x) == IsInWindow(x.when, fromDate, toDate)
             comments == SelectSeq(p.comments, InWin)
             reviews == SelectSeq(p.reviews, InWin)
         IN  (IF IsInWindow(p.createdAt, fromDate, toDate)
              THEN <<PRCreatedActivity(p, repoName)>> ELSE <<>>)
             \o [k \in 1..Len(comments) |-> PRCommentActivity(p, comments[k], repoName)]
             \o [k \in 1..Len(reviews) |-> PRReviewActivity(p, reviews[k], repoName)]
             \o PRActivities(Tail(prs), fromDate, toDate, repoName)

PRsConnector_fetch(rawPRs, fromDate, toDate) ==
    The({SortByDate(PRActivities(prs, fromDate, toDate, "acme/app")) :
         prs \in {ProcessedPRs(rawPRs, fromDate, toDate)}})

\* git.log({'--since': fromDate.format('YYYY-MM-DD'), '--until': ...}): git reads
\* a date without a time as that day at the wall clock's time of day, and keeps
\* the commits from --since to --until
GitLog(repoCommits, fromDate, toDate, now) ==
    LET since == StartOfDay(fromDate) + now
        until == StartOfDay(toDate) + now
        Listed(commit) == commit.date >= since /\ commit.date <= until
    IN  SelectSeq(repoCommits, Listed)

\* the loop of analyzeRepository: the commits of git log kept by the test on
\* commitDate, a hash being kept once
RECURSIVE analyzeRepository(_, _, _, _)
analyzeRepository(log, fromDate, toDate, found) ==
    IF log = <<>> THEN found
    ELSE LET commit == Head(log)
             inRange == /\ (commit.date > fromDate \/ commit.date = fromDate)
                        /\ (commit.date < toDate \/ commit.date = toDate)
             existing == \E k \in 1..Len(found) : found[k].hash = commit.hash
         IN  analyzeRepository(Tail(log), fromDate, toDate,
                               IF inRange /\ ~existing THEN Append(found, commit) ELSE found)

CommitsConnector_fetch(repoCommits, fromDate, toDate, now) ==
    The({[k \in 1..Len(allCommits) |-> CommitActivity(allCommits[k])] :
         allCommits \in {SortByDate(analyzeRepository(
                             GitLog(repoCommits, fromDate, toDate, now),
                             fromDate, toDate, <<>>))}})

\* ActivityConnector.execute around a fetch that returned
ConnectorResult(name, activities) ==
    [activities |-> activities, connectorName |-> name, success |-> TRUE,
     count |-> Len(activities)]

-----------------------------------------------------------------------------
(* The activities table and the upsert: infrastructure/activity-repository.ts *)

KeysOf(tbl) == {r.uniqueKey : r \in tbl}
RowOfKey(tbl, k) == CHOOSE r \in tbl : r.uniqueKey = k
NextId(tbl) == Cardinality(tbl) + 1

NewRow(tbl, new, now) ==
    [id |-> NextId(tbl), uniqueKey |-> new.uniqueKey, type |-> new.type,
     author |-> new.author, activityDate |-> new.activityDate,
     repository |-> new.repository, url |-> new.url,
     title |-> new.title, description |-> new.description,
     meta |-> new.meta, createdAt |-> now, updatedAt |-> now]

\* a variant that replaces the conflicting row by a fresh one (DELETE, INSERT)
UpsertRow_Replace(tbl, new, now) ==
    {r \in tbl : r.uniqueKey # new.uniqueKey} \cup {NewRow(tbl, new, now)}

\* a variant without the unique constraint: a plain INSERT
UpsertRow_Insert(tbl, new, now) == tbl \cup {NewRow(tbl, new, now)}

\* one row of INSERT ... ON CONFLICT (unique_key) DO UPDATE SET ... : the
\* conflicting row keeps id, unique_key and created_at
UpsertRow(tbl, new, now) ==
    IF new.uniqueKey \in KeysOf(tbl)
    THEN LET old == RowOfKey(tbl, new.uniqueKey)
         IN  (tbl \ {old}) \cup
             {[old EXCEPT !.type = new.type, !.author = new.author,
                          !.activityDate = new.activityDate,
                          !.repository = new.repository, !.url = new.url,
                          !.title = new.title, !.description = new.description,
                          !.meta = new.meta, !.updatedAt = now]}
    ELSE tbl \cup {NewRow(tbl, new, now)}

\* the rows of one statement, applied in their order (the first half, then
\* the second half on what the first has left)
RECURSIVE UpsertRows(_, _, _)
UpsertRows(tbl, rows, now) ==
    IF rows = <<>> THEN tbl
    ELSE IF Len(rows) = 1 THEN UpsertRow(tbl, rows[1], now)
    ELSE The({UpsertRows(next, SubSeq(rows, Len(rows) \div 2 + 1, Len(rows)), now) :
              next \in {UpsertRows(tbl, SubSeq(rows, 1, Len(rows) \div 2), now)}})

\* PostgreSQL refuses a statement whose VALUES hold one conflict key twice
\* ("ON CONFLICT DO UPDATE command cannot affect row a second time")
AffectsRowTwice(rows) ==
    \E i, j \in 1..Len(rows) : i < j /\ rows[i].uniqueKey = rows[j].uniqueKey

\* one statement: [ok, table, ids]
InsertOnConflictDoUpdate(tbl, rows, now) ==
    IF AffectsRowTwice(rows)
    THEN [ok |-> FALSE, table |-> tbl, ids |-> <<>>]
    ELSE The({[ok |-> TRUE, table |-> after,
               ids |-> [k \in 1..Len(rows) |-> RowOfKey(after, rows[k].uniqueKey).id]] :
              after \in {UpsertRows(tbl, rows, now)}})

BATCH_SIZE == 100

Min(a, b) == IF a < b THEN a ELSE b

\* the "(first-last of n)" of the Error a failing chunk throws
NoRange == [first |-> 0, last |-> 0, of |-> 0]
BatchRange(activitiesList, i) ==
    [first |-> i + 1, last |-> Min(i + BATCH_SIZE, Len(activitiesList)),
     of |-> Len(activitiesList)]

\* the Error of lines 272-274: the ids of the chunks before are not returned
Thrown(activitiesList, i, db) ==
    [ok |-> FALSE, ids |-> <<>>, range |-> BatchRange(activitiesList, i), db |-> db]

\* saveActivities of the repository, from offset i on: a failing chunk throws
\* and leaves the chunks before it committed.
\* db = [table, now, last]; the result adds [ok, ids, range]
RECURSIVE RepoSaveFrom(_, _, _, _)
RepoSaveFrom(activitiesList, i, db, allIds) ==
    IF i >= Len(activitiesList)
    THEN [ok |-> TRUE, ids |-> allIds, range |-> NoRange, db |-> db]
    ELSE
        LET batch == SubSeq(activitiesList, i + 1, Min(i + BATCH_SIZE, Len(activitiesList)))
            Prepared(newActivities) == \A k \in 1..Len(batch) : newActivities[k] # Invalid
            Insert(newActivities, stmt) ==
                IF ~stmt.ok
                THEN Thrown(activitiesList, i, [db EXCEPT !.now = @ + 1])
                ELSE The({RepoSaveFrom(activitiesList, i + BATCH_SIZE, after, ids) :
                          after \in {[table |-> stmt.table, now |-> db.now + 1,
                                      last |-> [rows |-> newActivities, now |-> db.now,
                                                n |-> db.last.n + 1]]},
                          ids \in {allIds \o stmt.ids}})
        IN  The({IF ~Prepared(newActivities)
                 THEN Thrown(activitiesList, i, db)
                 ELSE The({Insert(newActivities, stmt) :
                           stmt \in {InsertOnConflictDoUpdate(db.table, newActivities, db.now)}}) :
                 newActivities \in
                     {[k \in 1..Len(batch) |->
                          toNewActivity(batch[k], generateActivityKey(batch[k]))]}})

saveActivities(activitiesList, db) ==
    IF activitiesList = <<>> THEN [ok |-> TRUE, ids |-> <<>>, range |-> NoRange, db |-> db]
    ELSE RepoSaveFrom(activitiesList, 0, db, <<>>)

\* saveActivity: one row, the same ON CONFLICT clause
saveActivity(activity, db) ==
    The({IF newActivity = Invalid
         THEN [ok |-> FALSE, db |-> db]
         ELSE The({[ok |-> TRUE,
                    db |-> [table |-> stmt.table, now |-> db.now + 1,
                            last |-> [rows |-> <<newActivity>>, now |-> db.now,
                                      n |-> db.last.n + 1]]] :
                   stmt \in {InsertOnConflictDoUpdate(db.table, <<newActivity>>, db.now)}}) :
         newActivity \in {toNewActivity(activity, generateActivityKey(activity))}})

-----------------------------------------------------------------------------
(* core/activity-service.ts *)

batchSize == 50

\* saveBatch: the ids the repository returned, or one error; `ranges` holds
\* the range each error message carries
saveBatch(batch, db) ==
    The({[saved |-> IF r.ok THEN Len(r.ids) ELSE 0,
          errors |-> IF r.ok THEN 0 ELSE 1,
          ranges |-> IF r.ok THEN <<>> ELSE <<r.range>>,
          db |-> r.db] : r \in {saveActivities(batch, db)}})

\* a variant that gives up at the first batch that fails
RECURSIVE ServiceSaveFrom_StopAtFailure(_, _, _, _, _, _)
ServiceSaveFrom_StopAtFailure(activities, i, db, saved, errors, ranges) ==
    IF i * batchSize >= Len(activities) \/ errors > 0
    THEN [saved |-> saved, errors |-> errors, ranges |-> ranges, db |-> db]
    ELSE LET startIdx == i * batchSize
             endIdx == Min(startIdx + batchSize, Len(activities))
         IN  The({ServiceSaveFrom_StopAtFailure(activities, i + 1, r.db, saved + r.saved,
                                                errors + r.errors, ranges \o r.ranges) :
                  r \in {saveBatch(SubSeq(activities, startIdx + 1, endIdx), db)}})

\* ActivityService.saveActivities, from batch i on; errors are counted, and
\* `ranges` holds the range each of their messages carries
RECURSIVE ServiceSaveFrom(_, _, _, _, _, _)
ServiceSaveFrom(activities, i, db, saved, errors, ranges) ==
    IF i * batchSize >= Len(activities)
    THEN [saved |-> saved, errors |-> errors, ranges |-> ranges, db |-> db]
    ELSE LET startIdx == i * batchSize
             endIdx == Min(startIdx + batchSize, Len(activities))
         IN  The({ServiceSaveFrom(activities, i + 1, r.db, saved + r.saved,
                                  errors + r.errors, ranges \o r.ranges) :
                  r \in {saveBatch(SubSeq(activities, startIdx + 1, endIdx), db)}})

ActivityService_saveActivities(activities, db) ==
    IF activities = <<>> THEN [saved |-> 0, errors |-> 0, ranges |-> <<>>, db |-> db]
    ELSE ServiceSaveFrom(activities, 0, db, 0, 0, <<>>)

-----------------------------------------------------------------------------
(* The key specification: two activities, as the connectors and commands    *)
(* build them, are given to generateActivityKey.                            *)

RECURSIVE Rep(_, _)
Rep(s, n) ==
    IF n = 0 THEN ""
    ELSE IF n % 2 = 0 THEN LET h == Rep(s, n \div 2) IN h \o h
    ELSE s \o Rep(s, n - 1)

\* 10:00:00.000, 10:00:00.500 and 10:00:01.000 of day 0
KeyInstants == {At(0, 10, 0, 0, 0), At(0, 10, 0, 0, 500), At(0, 10, 0, 1, 0)}

KeyRawEvents ==
    {RawEvent("MovedColumnsInProjectEvent", t, "alice", c, "", "", "", "") :
        t \in KeyInstants, c \in StatusNames}
    \cup {RawEvent("ProjectV2ItemStatusChangedEvent", t, "alice", "", pr[1], pr[2], "", "") :
        t \in KeyInstants, pr \in {<<"Todo", "Doing">>, <<"Doing", "Todo">>}}
    \cup {RawEvent("LabeledEvent", t, "alice", "", "", "", l, "") :
        t \in KeyInstants, l \in {"bug", "ui"}}
    \cup {RawEvent("ClosedEvent", t, "alice", "", "", "", "", "") : t \in KeyInstants}
    \cup {RawEvent("AssignedEvent", t, "alice", "", "", "", "", "bob") : t \in KeyInstants}

\* the history items of both processors
KeyHistoryItems ==
    UNION {{HistoryItemsOf(e)[i] : i \in 1..Len(HistoryItemsOf(e))} : e \in KeyRawEvents}
    \cup UNION {{processTimelineEvent(e, 0)[i] : i \in 1..Len(processTimelineEvent(e, 0))} :
                  e \in KeyRawEvents}

KeyIssue == [number |-> 7, title |-> "Fix login", url |-> "https://github.com/acme/app/issues/7"]

KeyPR ==
    [number |-> 12, title |-> "Add cache", url |-> "https://github.com/acme/app/pull/12",
     createdAt |-> At(0, 9, 0, 0, 0), closedAt |-> 0, author |-> "bob", lifetimeMs |-> MsPerHour]

\* a git author name is free text: 480 characters here
LongAuthor == Rep("a", 480)

KeyActivities ==
    {IssueActivity(KeyIssue, h, "acme/Project-1", <<"issue", 1>>) : h \in KeyHistoryItems}
    \cup {PRCommentActivity(KeyPR, [who |-> "alice", when |-> t, text |-> b, at |-> 1],
                            "acme/app") :
            t \in KeyInstants, b \in {"LGTM", "one nit"}}
    \cup {PRReviewActivity(KeyPR, [who |-> "alice", when |-> t, state |-> "approved",
                                   body |-> "", at |-> 1], "acme/app") :
            t \in KeyInstants}
    \cup {PRCreatedActivity(KeyPR, "acme/app")}
    \cup {CommitActivity([author |-> a, date |-> At(0, 10, 0, 0, 0), hash |-> h,
                          message |-> "fix", repository |-> "app"]) :
            a \in {"alice", LongAuthor}, h \in {"3f2a9c1", "9b8d7e6"}}

\* the parts of the state a specification leaves out
NoProcessed == [history |-> <<>>, statusDurations |-> <<>>]

KeyOff ==
    /\ actA = <<>> /\ actB = <<>> /\ keyA = "" /\ keyB = "" /\ keyPc = "off"

NoWindow == [from |-> 0, to |-> 0]
NoWrite == [rows |-> <<>>, now |-> 0, n |-> 0]

SyncOff ==
    /\ ghIssue = <<>> /\ ghPR = <<>> /\ gitLog = <<>>
    /\ table = {} /\ dbNow = 1 /\ syncPc = "off" /\ window = NoWindow /\ clock = 0
    /\ results = <<>> /\ allActivities = <<>> /\ saveResult = [saved |-> 0, errors |-> 0]
    /\ lastWrite = NoWrite /\ runs = <<>> /\ singles = 0 /\ exitStatus = <<>>

TimelineOff ==
    /\ cal = DefaultConfig /\ item = <<>> /\ reportToDate = 0
    /\ processed = NoProcessed /\ tlPc = "off"

RvOff ==
    /\ rvPR = <<>> /\ rvInfo = <<>> /\ rvCmdInfo = <<>> /\ rvPc = "off"

WtOff ==
    /\ wtStart = 0 /\ wtEnd = 0 /\ wtCal = DefaultConfig /\ wtResult = 0 /\ wtPc = "off"

IsoOff ==
    /\ isoItem = <<>> /\ isoCmd = <<>> /\ isoCore = <<>> /\ isoPc = "off"

CwOff ==
    /\ cwTable = {} /\ cwNow = 0 /\ cwWriters = <<>>

BwOff ==
    /\ bwList = <<>> /\ bwTable = {} /\ bwService = <<>> /\ bwHandler = <<>> /\ bwPc = "off"

EbOff ==
    /\ ebHandlers = <<>> /\ ebSubs = <<>> /\ ebPub = <<>> /\ ebPc = "off"

OffExceptTl == KeyOff /\ SyncOff /\ RvOff /\ WtOff /\ IsoOff /\ CwOff /\ BwOff /\ EbOff
OffExceptKey == TimelineOff /\ SyncOff /\ RvOff /\ WtOff /\ IsoOff /\ CwOff /\ BwOff /\ EbOff
OffExceptSync == TimelineOff /\ KeyOff /\ RvOff /\ WtOff /\ IsoOff /\ CwOff /\ BwOff /\ EbOff
OffExceptRv == TimelineOff /\ KeyOff /\ SyncOff /\ WtOff /\ IsoOff /\ CwOff /\ BwOff /\ EbOff
OffExceptWt == TimelineOff /\ KeyOff /\ SyncOff /\ RvOff /\ IsoOff /\ CwOff /\ BwOff /\ EbOff
OffExceptIso == TimelineOff /\ KeyOff /\ SyncOff /\ RvOff /\ WtOff /\ CwOff /\ BwOff /\ EbOff
OffExceptCw == TimelineOff /\ KeyOff /\ SyncOff /\ RvOff /\ WtOff /\ IsoOff /\ BwOff /\ EbOff
OffExceptBw == TimelineOff /\ KeyOff /\ SyncOff /\ RvOff /\ WtOff /\ IsoOff /\ CwOff /\ EbOff
OffExceptEb == TimelineOff /\ KeyOff /\ SyncOff /\ RvOff /\ WtOff /\ IsoOff /\ CwOff /\ BwOff

InitKey ==
    /\ OffExceptKey
    /\ actA \in KeyActivities
    /\ actB \in KeyActivities
    /\ keyA = ""
    /\ keyB = ""
    /\ keyPc = "input"

GenerateKeys ==
    /\ keyPc = "input"
    /\ keyA' = generateActivityKey(actA)
    /\ keyB' = generateActivityKey(actB)
    /\ keyPc' = "done"
    /\ UNCHANGED <<actA, actB, exceptKey>>

-----------------------------------------------------------------------------
(* The timeline specification: an issue's raw events arrive one by one, in  *)
(* any order, and processItem is then run on them.                          *)

MaxEvents == 2

\* Fri 08:00, Fri 10:30, Fri 16:00, Sat 12:00, Mon 10:00
TlInstants == {At(4, 8, 0, 0, 0), At(4, 10, 30, 0, 0), At(4, 16, 0, 0, 0),
               At(5, 12, 0, 0, 0), At(7, 10, 0, 0, 0)}

\* WORKING_START_HOUR .. HOLIDAYS as the environment may set them
Calendars == {DefaultConfig,
              [startHour |-> 8, endHour |-> 12, workingDays |-> {1, 5, 6},
               holidays |-> {"2026-01-12"}]}

TlEvents ==
    {RawEvent("MovedColumnsInProjectEvent", t, "alice", c, "", "", "", "") :
        t \in TlInstants, c \in StatusNames}
    \cup {RawEvent("ProjectV2ItemStatusChangedEvent", t, "alice", "", pr[1], pr[2], "", "") :
        t \in TlInstants, pr \in {<<"Todo", "Doing">>, <<"Doing", "Todo">>}}
    \cup {RawEvent("LabeledEvent", t, "alice", "", "", "", "bug", "") : t \in TlInstants}
    \cup {RawEvent("ConvertedToDiscussionEvent", t, "alice", "", "", "", "", "") :
        t \in TlInstants}

InitTimeline ==
    /\ OffExceptTl
    /\ cal \in Calendars
    /\ item \in [createdAt : TlInstants, events : {<<>>}]
    /\ reportToDate \in TlInstants
    /\ processed = NoProcessed
    /\ tlPc = "input"

\* the upstream API returns one more timeline node
ReceiveEvent ==
    /\ tlPc = "input"
    /\ Len(item.events) < MaxEvents
    /\ \E e \in TlEvents : item' = [item EXCEPT !.events = Append(@, e)]
    /\ UNCHANGED <<cal, reportToDate, processed, tlPc, exceptTl>>

ProcessItem ==
    /\ tlPc = "input"
    /\ processed' = processItem(item, reportToDate, cal)
    /\ tlPc' = "done"
    /\ UNCHANGED <<cal, item, reportToDate, exceptTl>>

NextTimeline == ReceiveEvent \/ ProcessItem

SpecTimeline == InitTimeline /\ [][NextTimeline]_vars

RECURSIVE SumDurations(_)
SumDurations(sds) ==
    IF sds = <<>> THEN 0 ELSE Head(sds).durationMs + SumDurations(Tail(sds))

StatusEventTimes == {e.createdAt : e \in {item.events[i] : i \in 1..Len(item.events)}}

\* C1: when processItem has run, the durations of the returned statusDurations
\* sum to calculateWorkingTime(openedAt, asOf), whatever the events' timestamps.
C1_Conservation ==
    tlPc = "done" =>
        SumDurations(processed.statusDurations)
            = calculateWorkingTime(item.createdAt, reportToDate, cal)

-----------------------------------------------------------------------------
(* The key specification *)

NextKey == GenerateKeys

SpecKey == InitKey /\ [][NextKey]_vars

\* C8: the key returned by generateActivityKey has at most 500 characters
C8_KeyLength ==
    keyPc = "done" => Len(keyA) <= MaxKeyLength

SameSecond(a, b) == a \div MsPerSecond = b \div MsPerSecond

SameIssueAuthorSecond ==
    /\ StartsWithIssue(actA.type) /\ StartsWithIssue(actB.type)
    /\ actA.meta.issueNumber = actB.meta.issueNumber
    /\ actA.repository = actB.repository
    /\ actA.author = actB.author
    /\ SameSecond(actA.date, actB.date)

\* C9: two issue activities on one issue, by one author, in one second, that
\* differ in their action or their changed value have different keys
C9_IssueKeysDiffer ==
    (/\ keyPc = "done"
     /\ SameIssueAuthorSecond
     /\ (actA.meta.action # actB.meta.action \/ actA.meta.value # actB.meta.value))
        => keyA # keyB

C9_Witness ==
    /\ keyPc = "done"
    /\ SameIssueAuthorSecond
    /\ actA.type = "issue_status_change" /\ actB.type = "issue_status_change"
    /\ actA.meta.action = actB.meta.action
    /\ actA.meta.value = "Todo" /\ actB.meta.value = "Doing"
    /\ actA.date # actB.date
    /\ keyA # keyB

\* C10: two comments with different bodies by one author on one pull request
\* within one second have different keys
C10_CommentKeysDiffer ==
    (/\ keyPc = "done"
     /\ actA.type = "pr_comment" /\ actB.type = "pr_comment"
     /\ actA.meta.prNumber = actB.meta.prNumber
     /\ actA.repository = actB.repository
     /\ actA.author = actB.author
     /\ SameSecond(actA.date, actB.date)
     /\ actA.description # actB.description)
        => keyA # keyB

-----------------------------------------------------------------------------
(* The sync specification: an issue, a pull request and commits exist        *)
(* upstream; sync-activities then runs, window after window, each run        *)
(* fetching from the three connectors in turn and saving what they returned. *)

MaxItems == 2
MaxRuns == 2
MaxSingles == 1

Te == At(0, 9, 0, 0, 0)
T0 == At(0, 10, 0, 0, 0)
Ta == At(0, 15, 0, 0, 0)
T1 == At(1, 10, 0, 0, 0)
Tb == At(1, 15, 0, 0, 0)
T2 == At(2, 10, 0, 0, 0)
Tc == At(2, 15, 0, 0, 0)

\* the times of day a sync is started at: 09:55 and 10:05
Clocks == {At(0, 9, 55, 0, 0), At(0, 10, 5, 0, 0)}

\* the windows of a daily cron, back to back, and the two taken as one
Windows == {[from |-> T0, to |-> T1], [from |-> T1, to |-> T2], [from |-> T0, to |-> T2]}
EventInstants == {Ta, T1, Tb}
Titles == {"Fix login", "Fix login bug"}

SyncIssueEvents ==
    {RawEvent("LabeledEvent", t, "alice", "", "", "", "bug", "") : t \in EventInstants}
    \cup {RawEvent("ClosedEvent", t, "alice", "", "", "", "", "") : t \in EventInstants}

SyncCommits ==
    {[author |-> "alice", date |-> T1, hash |-> "3f2a9c1", message |-> "fix",
      repository |-> "app"],
     [author |-> "alice", date |-> Tb, hash |-> "9b8d7e6", message |-> "tidy",
      repository |-> "app"]}

InitSync ==
    /\ OffExceptSync
    /\ ghIssue \in [number : {7}, title : {"Fix login"},
                    url : {"https://github.com/acme/app/issues/7"},
                    updatedAt : {Ta, Tb, Tc}, events : {<<>>}]
    /\ ghPR \in [number : {12}, title : {"Add cache"},
                 url : {"https://github.com/acme/app/pull/12"},
                 createdAt : {Te, Ta}, closedAt : {0}, author : {"bob"},
                 reviews : {<<>>}, comments : {<<>>}]
    /\ gitLog = <<>>
    /\ table = {} /\ dbNow = 1 /\ syncPc = "world" /\ window = NoWindow /\ clock = 0
    /\ results = <<>> /\ allActivities = <<>> /\ saveResult = [saved |-> 0, errors |-> 0]
    /\ lastWrite = NoWrite /\ runs = <<>> /\ singles = 0 /\ exitStatus = <<>>

WorldSize == Len(ghIssue.events) + Len(ghPR.comments) + Len(ghPR.reviews) + Len(gitLog)

runVars == <<table, dbNow, syncPc, window, clock, results, allActivities, saveResult,
             lastWrite, runs, singles, exitStatus>>

\* upstream, before the syncs: an event on the issue (updatedAt is never
\* before an event of the issue)
AddIssueEvent ==
    /\ syncPc = "world" /\ WorldSize < MaxItems
    /\ \E e \in SyncIssueEvents :
          /\ e.createdAt <= ghIssue.updatedAt
          /\ ghIssue' = [ghIssue EXCEPT !.events = Append(@, e)]
    /\ UNCHANGED <<exceptSync, ghPR, gitLog, runVars>>

AddComment ==
    /\ syncPc = "world" /\ WorldSize < MaxItems
    /\ \E t \in EventInstants :
          /\ t >= ghPR.createdAt
          /\ ghPR' = [ghPR EXCEPT !.comments =
                        Append(@, [author |-> "alice", createdAt |-> t, body |-> "LGTM"])]
    /\ UNCHANGED <<exceptSync, ghIssue, gitLog, runVars>>

AddReview ==
    /\ syncPc = "world" /\ WorldSize < MaxItems
    /\ \E t \in EventInstants :
          /\ t >= ghPR.createdAt
          /\ ghPR' = [ghPR EXCEPT !.reviews =
                        Append(@, [author |-> "carol", createdAt |-> t,
                                   state |-> "APPROVED", body |-> ""])]
    /\ UNCHANGED <<exceptSync, ghIssue, gitLog, runVars>>

AddCommit ==
    /\ syncPc = "world" /\ WorldSize < MaxItems
    /\ \E c \in SyncCommits :
          /\ \A k \in 1..Len(gitLog) : gitLog[k] # c
          /\ gitLog' = Append(gitLog, c)
    /\ UNCHANGED <<exceptSync, ghIssue, ghPR, runVars>>

\* upstream, between two syncs: the issue is renamed
EditTitle ==
    /\ syncPc = "idle" /\ Len(runs) < MaxRuns
    /\ \E t \in Titles \ {ghIssue.title} : ghIssue' = [ghIssue EXCEPT !.title = t]
    /\ UNCHANGED <<exceptSync, ghPR, gitLog, runVars>>

\* the command starts: dates parsed, connectors created
StartSync ==
    /\ syncPc \in {"world", "idle"} /\ Len(runs) < MaxRuns
    /\ window' \in Windows
    /\ clock' \in Clocks
    /\ results' = <<>> /\ allActivities' = <<>>
    /\ syncPc' = "issues"
    /\ exitStatus' = <<>>
    /\ UNCHANGED <<exceptSync, worldVars, table, dbNow, saveResult, lastWrite, runs, singles>>

\* a loop without execute's catch: the failure of one connector ends the
\* command before anything is saved
Collect_AbortOnFailure(result, next) ==
    /\ results' = Append(results, result)
    /\ allActivities' = allActivities \o result.activities
    /\ syncPc' = IF result.success THEN next ELSE "idle"
    /\ UNCHANGED <<exceptSync, worldVars, table, dbNow, window, clock, saveResult, lastWrite, runs,
                    singles, exitStatus>>

\* one turn of `for (const connector of connectors)`
Collect(result, next) ==
    /\ results' = Append(results, result)
    /\ allActivities' = allActivities \o result.activities
    /\ syncPc' = next
    /\ UNCHANGED <<exceptSync, worldVars, table, dbNow, window, clock, saveResult, lastWrite, runs,
                    singles, exitStatus>>

RunIssues ==
    /\ syncPc = "issues"
    /\ \E activities \in {IssuesConnector_fetch(<<ghIssue>>, window.from, window.to)} :
          Collect(ConnectorResult("issues", activities), "prs")

RunPRs ==
    /\ syncPc = "prs"
    /\ \E activities \in {PRsConnector_fetch(<<ghPR>>, window.from, window.to)} :
          Collect(ConnectorResult("prs", activities), "commits")

RunCommits ==
    /\ syncPc = "commits"
    /\ \E activities \in {CommitsConnector_fetch(gitLog, window.from, window.to, clock)} :
          Collect(ConnectorResult("commits", activities), "save")

\* what the properties keep of one activity of a run
Emitted(a) ==
    [src |-> a.src, date |-> a.date, key |-> generateActivityKey(a), title |-> a.title,
     lifetimeMs |-> a.meta.lifetimeMs]

\* the sort, ActivityService.saveActivities and the summary
SaveAll ==
    /\ syncPc = "save"
    /\ \E sorted \in {SortByDate(allActivities)} :
       \E r \in {ActivityService_saveActivities(
                    sorted, [table |-> table, now |-> dbNow, last |-> lastWrite])} :
           /\ allActivities' = sorted
           /\ table' = r.db.table
           /\ dbNow' = r.db.now
           /\ lastWrite' = r.db.last
           /\ saveResult' = [saved |-> r.saved, errors |-> r.errors]
           /\ runs' = Append(runs,
                  [window |-> window,
                   acts |-> {Emitted(sorted[k]) : k \in 1..Len(sorted)},
                   tableKeys |-> KeysOf(r.db.table),
                   rows |-> Cardinality(r.db.table),
                   title |-> ghIssue.title,
                   log |-> GitLog(gitLog, window.from, window.to, clock),
                   singles |-> singles])
    /\ syncPc' = "idle"
    /\ exitStatus' = <<0>>
    /\ UNCHANGED <<exceptSync, worldVars, window, clock, results, singles>>

\* the ACTIVITY_CREATED handler of activity-handler.ts, for one of the
\* activities of the last sync
HandleActivityCreated ==
    /\ syncPc = "idle" /\ singles < MaxSingles
    /\ \E k \in 1..Len(allActivities) :
          \E r \in {saveActivity(allActivities[k],
                                 [table |-> table, now |-> dbNow, last |-> lastWrite])} :
              /\ table' = r.db.table
              /\ dbNow' = r.db.now
              /\ lastWrite' = r.db.last
    /\ singles' = singles + 1
    /\ UNCHANGED <<exceptSync, worldVars, syncPc, window, clock, results, allActivities,
                    saveResult, runs, exitStatus>>

NextSync ==
    \/ AddIssueEvent \/ AddComment \/ AddReview \/ AddCommit \/ EditTitle
    \/ StartSync \/ RunIssues \/ RunPRs \/ RunCommits \/ SaveAll
    \/ HandleActivityCreated

SpecSync == InitSync /\ [][NextSync]_vars

-----------------------------------------------------------------------------
(* Properties of the sync specification *)

KeysOfRun(run) == {a.key : a \in run.acts}
SrcsOfRun(run) == {a.src : a \in run.acts}

\* the row of key k after the step, against the row before it and the values
\* the statement carried for k
RowOverwritten(before, after, new, now) ==
    /\ after.uniqueKey = before.uniqueKey
    /\ after.createdAt = before.createdAt
    /\ after.title = new.title
    /\ after.description = new.description
    /\ after.meta = new.meta
    /\ after.updatedAt = now

\* a step in which saveActivities or saveActivity ran a statement that succeeded
UpsertStep ==
    lastWrite'.n # lastWrite.n =>
        \A k \in 1..Len(lastWrite'.rows) :
            LET new == lastWrite'.rows[k]
            IN  new.uniqueKey \in KeysOf(table) =>
                    /\ new.uniqueKey \in KeysOf(table')
                    /\ RowOverwritten(RowOfKey(table, new.uniqueKey),
                                      RowOfKey(table', new.uniqueKey), new, lastWrite'.now)

OneRowPerKey == \A r1, r2 \in table : r1.uniqueKey = r2.uniqueKey => r1 = r2

\* C2: an upsert of a key the table already holds keeps the row's unique_key and
\* created_at and overwrites title, description, meta and updated_at with the
\* incoming values; the table never holds two rows of one key.
C2_UpsertPreserves == [][UpsertStep]_vars /\ []OneRowPerKey

\* a row written twice, by a sync after the issue was renamed, and a row written
\* again by saveActivity
C2_Witness ==
    /\ Len(runs) = 2 /\ singles = 1
    /\ runs[1].title # runs[2].title
    /\ \E r \in table : /\ r.createdAt < r.updatedAt
                        /\ r.meta.issueNumber # 0
                        /\ r.title = runs[2].title
    /\ Len(lastWrite.rows) = 1 /\ lastWrite.rows[1].uniqueKey \in runs[1].tableKeys

\* C3: a sync run again on the same window and given the same commits by git
\* log, nothing else having written in between, generates the same keys as the run before it and leaves the same
\* set of persisted keys and the same number of rows.
C3_Idempotent ==
    \A i \in 1..Len(runs) :
        (/\ i < Len(runs)
         /\ runs[i].window = runs[i + 1].window
         /\ runs[i].log = runs[i + 1].log
         /\ runs[i].singles = runs[i + 1].singles)
            => /\ KeysOfRun(runs[i]) = KeysOfRun(runs[i + 1])
               /\ runs[i].tableKeys = runs[i + 1].tableKeys
               /\ runs[i].rows = runs[i + 1].rows

\* two runs on one window that emitted and stored several records, the issue
\* renamed in between
C3_Witness ==
    /\ Len(runs) = 2
    /\ runs[1].window = runs[2].window
    /\ runs[1].log = runs[2].log /\ runs[1].log # <<>>
    /\ runs[1].singles = runs[2].singles
    /\ runs[1].title # runs[2].title
    /\ Cardinality(KeysOfRun(runs[1])) >= 2
    /\ runs[1].rows >= 2

\* C4: the records two runs make of one raw event carry the same key, whatever
\* the runs' windows and the title and lifetime the records carry.
C4_KeyOfIdentity ==
    \A i, j \in 1..Len(runs) :
        \A a \in runs[i].acts, b \in runs[j].acts : a.src = b.src => a.key = b.key

\* one raw event emitted by two runs on different windows, with another title
\* or another lifetime
C4_Witness ==
    \E i, j \in 1..Len(runs) :
        /\ runs[i].window # runs[j].window
        /\ \E a \in runs[i].acts, b \in runs[j].acts :
              a.src = b.src /\ a.title # b.title
        /\ \E a \in runs[i].acts, b \in runs[j].acts :
              a.src = b.src /\ a.lifetimeMs # b.lifetimeMs

\* the raw timeline events of the issue that give a history item
HistoryEvents == {k \in 1..Len(ghIssue.events) : processTimelineEvent(ghIssue.events[k], k) # <<>>}

\* C5: of an issue the run looks at, a history item is emitted exactly when
\* from <= when < to.
C5_HalfOpenWindow ==
    \A i \in 1..Len(runs) :
        LET w == runs[i].window
        IN  IsInWindow(ghIssue.updatedAt, w.from, w.to) =>
                \A k \in HistoryEvents :
                    (<<"issue", k>> \in SrcsOfRun(runs[i]))
                        <=> (w.from <= ghIssue.events[k].createdAt
                             /\ ghIssue.events[k].createdAt < w.to)

\* C6: two runs on adjacent windows never both emit the event that occurred at
\* the instant the windows share.
C6_AdjacentWindows ==
    \A i, j \in 1..Len(runs) :
        runs[i].window.to = runs[j].window.from =>
            \A a \in runs[i].acts, b \in runs[j].acts :
                ~(a.src = b.src /\ a.date = runs[i].window.to)

\* C7: every comment and review of the pull request, and every history item of
\* the issue, whose time is inside the window is emitted by the run.
C7_OnePerItem ==
    \A i \in 1..Len(runs) :
        LET w == runs[i].window
        IN  /\ \A k \in 1..Len(ghPR.comments) :
                  IsInWindow(ghPR.comments[k].createdAt, w.from, w.to)
                      => <<"comment", k>> \in SrcsOfRun(runs[i])
            /\ \A k \in 1..Len(ghPR.reviews) :
                  IsInWindow(ghPR.reviews[k].createdAt, w.from, w.to)
                      => <<"review", k>> \in SrcsOfRun(runs[i])
            /\ \A k \in HistoryEvents :
                  IsInWindow(ghIssue.events[k].createdAt, w.from, w.to)
                      => <<"issue", k>> \in SrcsOfRun(runs[i])

-----------------------------------------------------------------------------
(* The review specification: reviews are submitted on a pull request, in any *)
(* order of reviewers and states, and both processPR are then run on it.     *)

MaxReviews == 3

RvInstants == {At(0, 10, 0, 0, 0), At(0, 11, 0, 0, 0), At(0, 12, 0, 0, 0)}
Reviewers == {"alice", "bob"}
ReviewStates == {"APPROVED", "CHANGES_REQUESTED", "COMMENTED"}

InitReview ==
    /\ OffExceptRv
    /\ rvPR = [number |-> 12, title |-> "Add cache",
               url |-> "https://github.com/acme/app/pull/12",
               createdAt |-> At(0, 9, 0, 0, 0), closedAt |-> 0, author |-> "carol",
               reviews |-> <<>>, comments |-> <<>>]
    /\ rvInfo = <<>> /\ rvCmdInfo = <<>>
    /\ rvPc = "input"

\* a reviewer submits a review; the upstream list is in the order of submission
SubmitReview ==
    /\ rvPc = "input"
    /\ Len(rvPR.reviews) < MaxReviews
    /\ \E who \in Reviewers, state \in ReviewStates, t \in RvInstants :
          /\ \A k \in 1..Len(rvPR.reviews) : rvPR.reviews[k].createdAt <= t
          /\ rvPR' = [rvPR EXCEPT !.reviews =
                        Append(@, [author |-> who, createdAt |-> t, state |-> state,
                                   body |-> ""])]
    /\ UNCHANGED <<rvInfo, rvCmdInfo, rvPc, exceptRv>>

ProcessPR ==
    /\ rvPc = "input"
    /\ rvInfo' = processPR(rvPR, At(0, 13, 0, 0, 0))
    /\ rvCmdInfo' = FetchPRs_processPR(rvPR)
    /\ rvPc' = "done"
    /\ UNCHANGED <<rvPR, exceptRv>>

NextReview == SubmitReview \/ ProcessPR

SpecReview == InitReview /\ [][NextReview]_vars

\* the reviews of one reviewer that no review of theirs is later than
LastReviewsOf(who) ==
    {k \in 1..Len(rvPR.reviews) :
        /\ rvPR.reviews[k].author = who
        /\ \A j \in 1..Len(rvPR.reviews) :
              rvPR.reviews[j].author = who
                  => rvPR.reviews[j].createdAt <= rvPR.reviews[k].createdAt}

\* the reviewers whose most recent review requests changes; two reviews of one
\* reviewer in one second leave either reading open
MayBlock(who) == \E k \in LastReviewsOf(who) : rvPR.reviews[k].state = "CHANGES_REQUESTED"
MustBlock(who) ==
    /\ LastReviewsOf(who) # {}
    /\ \A k \in LastReviewsOf(who) : rvPR.reviews[k].state = "CHANGES_REQUESTED"

\* C11: isRequestChanges is true exactly when some reviewer's most recent review
\* requests changes.
C11_RequestChangesActive ==
    rvPc = "done" =>
        /\ rvInfo.isRequestChanges => \E who \in Reviewers : MayBlock(who)
        /\ (\E who \in Reviewers : MustBlock(who)) => rvInfo.isRequestChanges

\* C12: when isRequestChanges is true, requestedChangesBy names a reviewer whose
\* most recent review requests changes.
C12_RequestedChangesBy ==
    (rvPc = "done" /\ rvInfo.isRequestChanges /\ \E who \in Reviewers : MayBlock(who))
        => MayBlock(rvInfo.requestedChangesBy.who)

\* the same two statements of the processPR of commands/fetch-prs.ts
FetchPRs_RequestChanges ==
    rvPc = "done" =>
        /\ rvCmdInfo.isRequestChanges => \E who \in Reviewers : MayBlock(who)
        /\ (\E who \in Reviewers : MustBlock(who)) => rvCmdInfo.isRequestChanges
        /\ rvCmdInfo.isRequestChanges => MayBlock(rvCmdInfo.requestedChangesBy.who)

-----------------------------------------------------------------------------
(* Specification of one call of calculateWorkingTime *)

WtDays == {2, 4, 5, 7}          \* Wed 7, Fri 9, Sat 10 and Mon 12 January 2026
WtTimes == {<<0, 0>>, <<9, 0>>, <<10, 0>>, <<16, 0>>, <<17, 0>>, <<23, 30>>}
WtInstants == {At(d, hm[1], hm[2], 0, 0) : d \in WtDays, hm \in WtTimes}

WtCalendars ==
    Calendars \cup
    {[startHour |-> 9, endHour |-> 17, workingDays |-> {1, 2, 3, 4, 5},
      holidays |-> {"2026-01-07"}],
     [startHour |-> 17, endHour |-> 9, workingDays |-> {1, 2, 3, 4, 5, 6},
      holidays |-> {}],
     \* WORKING_DAYS=none: parseInt gives NaN, which no weekday equals
     [startHour |-> 9, endHour |-> 17, workingDays |-> {}, holidays |-> {}]}

InitWorkingTime ==
    /\ OffExceptWt
    /\ wtStart \in WtInstants
    /\ wtEnd \in WtInstants
    /\ wtCal \in WtCalendars
    /\ wtResult = 0
    /\ wtPc = "input"

CalculateWorkingTime ==
    /\ wtPc = "input"
    /\ wtResult' = calculateWorkingTime(wtStart, wtEnd, wtCal)
    /\ wtPc' = "done"
    /\ UNCHANGED <<wtStart, wtEnd, wtCal, exceptWt>>

NextWorkingTime == CalculateWorkingTime

SpecWorkingTime == InitWorkingTime /\ [][NextWorkingTime]_vars

\* C13: for every calendar, when end is at or before start (start = end
\* included) calculateWorkingTime returns 0, and it never returns a negative
\* number.
C13_NonPositiveSpanIsZero ==
    wtPc = "done" =>
        /\ wtEnd <= wtStart => wtResult = 0
        /\ wtResult >= 0

\* start = end before the opening hour of a working day: the day's overlap
\* is empty and nothing is added
C13_Witness ==
    /\ wtPc = "done"
    /\ wtStart = wtEnd
    /\ Weekday(wtStart) \in wtCal.workingDays
    /\ DateStr(wtStart) \notin wtCal.holidays
    /\ wtStart < StartOfDay(wtStart) + wtCal.startHour * MsPerHour
    /\ wtResult = 0

\* the length of [start, end] /\ [d + startHour, d + endHour] on calendar day d
DayOverlap(d, start, end, config) ==
    LET lo == IF start > d * MsPerDay + config.startHour * MsPerHour
              THEN start ELSE d * MsPerDay + config.startHour * MsPerHour
        hi == IF end < d * MsPerDay + config.endHour * MsPerHour
              THEN end ELSE d * MsPerDay + config.endHour * MsPerHour
    IN  IF lo < hi THEN hi - lo ELSE 0

\* the calendar days from start's to end's that the calendar works on
WorkedDays(start, end, config) ==
    {d \in DayOf(start)..DayOf(end) :
        /\ Weekday(d * MsPerDay) \in config.workingDays
        /\ DateStr(d * MsPerDay) \notin config.holidays}

RECURSIVE SumOverlaps(_, _, _, _)
SumOverlaps(days, start, end, config) ==
    IF days = {} THEN 0
    ELSE LET d == CHOOSE x \in days : TRUE
         IN  DayOverlap(d, start, end, config) + SumOverlaps(days \ {d}, start, end, config)

\* C14: for start < end, calculateWorkingTime is the sum, over the calendar
\* days from start's day to end's day inclusive whose weekday is a working
\* day and whose date is not a holiday, of the length of the intersection of
\* [start, end] with that day's working window.
C14_SumOfDailyOverlaps ==
    (wtPc = "done" /\ wtStart < wtEnd) =>
        wtResult = SumOverlaps(WorkedDays(wtStart, wtEnd, wtCal), wtStart, wtEnd, wtCal)

\* a span of several days that holds a holiday on a working weekday, a day
\* off and at least two worked days, the first and the last cut by the span
C14_Witness ==
    /\ wtPc = "done"
    /\ wtStart < wtEnd
    /\ \E d \in DayOf(wtStart)..DayOf(wtEnd) :
           /\ Weekday(d * MsPerDay) \in wtCal.workingDays
           /\ DateStr(d * MsPerDay) \in wtCal.holidays
    /\ \E d \in DayOf(wtStart)..DayOf(wtEnd) : Weekday(d * MsPerDay) \notin wtCal.workingDays
    /\ Cardinality({d \in WorkedDays(wtStart, wtEnd, wtCal) :
                        DayOverlap(d, wtStart, wtEnd, wtCal) > 0}) >= 2
    /\ DayOverlap(DayOf(wtStart), wtStart, wtEnd, wtCal)
           \notin {0, (wtCal.endHour - wtCal.startHour) * MsPerHour}
    /\ wtResult > 0

\* C15: with the Monday-to-Friday 9-17 calendar without holidays, Friday
\* 16:00 to the next Monday 10:00 is exactly 2 hours, Wednesday 09:00 to 17:00
\* is 8 hours, and Saturday 09:00 to 17:00 is 0.
C15_DefaultCalendarCases ==
    (wtPc = "done" /\ wtCal = DefaultConfig) =>
        /\ (wtStart = At(4, 16, 0, 0, 0) /\ wtEnd = At(7, 10, 0, 0, 0))
               => wtResult = 2 * MsPerHour
        /\ (wtStart = At(2, 9, 0, 0, 0) /\ wtEnd = At(2, 17, 0, 0, 0))
               => wtResult = 8 * MsPerHour
        /\ (wtStart = At(5, 9, 0, 0, 0) /\ wtEnd = At(5, 17, 0, 0, 0))
               => wtResult = 0

\* Friday 16:00 to Monday 10:00 has been computed with the default calendar
C15_Witness ==
    /\ wtPc = "done"
    /\ wtCal = DefaultConfig
    /\ Weekday(wtStart) = 5 /\ wtStart = At(4, 16, 0, 0, 0)
    /\ Weekday(wtEnd) = 1 /\ wtEnd = At(7, 10, 0, 0, 0)
    /\ wtResult = 2 * MsPerHour

-----------------------------------------------------------------------------
(* Specification of one issue's timeline through both processItem functions *)

MaxNodes == 3

IsoCreatedAt == At(4, 8, 0, 0, 0)
IsoInstants == {At(4, 10, 30, 0, 0), At(4, 16, 0, 0, 0)}
IsoToDate == At(7, 10, 0, 0, 0)

\* nodes of the kinds the query has a fragment for, with every field present
WellFormedNodes ==
    {RawEvent("MovedColumnsInProjectEvent", t, "alice", "Doing", "", "", "", "") :
        t \in IsoInstants}
    \cup {RawEvent("ProjectV2ItemStatusChangedEvent", t, "alice", "", "Todo", "Doing", "", "") :
        t \in IsoInstants}
    \cup {RawEvent("ProjectV2ItemStatusChangedEvent", t, "alice", "", "Doing", "Todo", "", "") :
        t \in IsoInstants}
    \cup {RawEvent("LabeledEvent", t, "alice", "", "", "", "bug", "") : t \in IsoInstants}
    \cup {RawEvent("ClosedEvent", t, "alice", "", "", "", "", "") : t \in IsoInstants}
    \cup {RawEvent("ReopenedEvent", At(4, 16, 0, 0, 0), "alice", "", "", "", "", ""),
          RawEvent("UnlabeledEvent", At(4, 16, 0, 0, 0), "alice", "", "", "", "bug", ""),
          RawEvent("AssignedEvent", At(4, 10, 30, 0, 0), "alice", "", "", "", "", "bob"),
          RawEvent("UnassignedEvent", At(4, 16, 0, 0, 0), "alice", "", "", "", "", "bob")}

\* nodes of a kind without a fragment: the query returns __typename alone; a
\* later schema may add the common fields
UnknownKinds == {"ConvertedToDiscussionEvent", "MentionedEvent"}
UnknownNodes ==
    {RawEvent("ConvertedToDiscussionEvent", 0, "", "", "", "", "", ""),
     RawEvent("MentionedEvent", At(4, 10, 30, 0, 0), "alice", "", "", "", "", "")}

\* nodes of a known kind whose actor is null (a deleted account) or whose
\* createdAt is absent
PartialNodes ==
    {RawEvent("LabeledEvent", At(4, 10, 30, 0, 0), "", "", "", "", "bug", ""),
     RawEvent("ClosedEvent", At(4, 16, 0, 0, 0), "", "", "", "", "", ""),
     RawEvent("LabeledEvent", 0, "alice", "", "", "", "bug", "")}

IsoNodes == WellFormedNodes \cup UnknownNodes \cup PartialNodes

InitIsolation ==
    /\ OffExceptIso
    /\ isoItem = [createdAt |-> IsoCreatedAt, events |-> <<>>]
    /\ isoCmd = <<>>
    /\ isoCore = <<>>
    /\ isoPc = "input"

\* the issue as core/issue-processor.ts reads it
IsoIssue(it) ==
    [number |-> 7, title |-> "Fix login", url |-> "https://github.com/o/r/issues/7",
     updatedAt |-> IsoToDate, events |-> it.events]

ReceiveNode ==
    /\ isoPc = "input"
    /\ Len(isoItem.events) < MaxNodes
    /\ \E e \in IsoNodes : isoItem' = [isoItem EXCEPT !.events = Append(@, e)]
    /\ UNCHANGED <<isoCmd, isoCore, isoPc, exceptIso>>

ProcessBoth ==
    /\ isoPc = "input"
    /\ isoCmd' = processItem(isoItem, IsoToDate, DefaultConfig)
    /\ isoCore' = IssueProcessor_processItem(IsoIssue(isoItem))
    /\ isoPc' = "done"
    /\ UNCHANGED <<isoItem, exceptIso>>

NextIsolation == ReceiveNode \/ ProcessBoth

SpecIsolation == InitIsolation /\ [][NextIsolation]_vars

\* the events left when those of `drop` are taken out
RECURSIVE Without(_, _)
Without(events, drop) ==
    IF events = <<>> THEN <<>>
    ELSE IF Head(events) \in drop
         THEN Without(Tail(events), drop)
         ELSE <<Head(events)>> \o Without(Tail(events), drop)

\* a history as the code's records hold it (without the model's `at`)
Items(history) ==
    [k \in 1..Len(history) |->
        [type |-> history[k].type, action |-> history[k].action,
         value |-> history[k].value, when |-> history[k].when,
         who |-> history[k].who, durationMs |-> history[k].durationMs]]

\* both processors give for `isoItem` what they give for the same issue
\* without the events of `drop`
SameAsWithout(drop) ==
    LET rest == [isoItem EXCEPT !.events = Without(@, drop)]
        cmd == processItem(rest, IsoToDate, DefaultConfig)
        core == IssueProcessor_processItem(IsoIssue(rest))
    IN  /\ Items(isoCmd.history) = Items(cmd.history)
        /\ isoCmd.statusDurations = cmd.statusDurations
        /\ Items(isoCore.history) = Items(core.history)
        /\ isoCore.statusDurations = core.statusDurations

\* C16: events of an unrecognized kind, put at any positions of an issue's
\* raw event list, change neither the history items nor the status durations
\* that processItem gives for the other events (and processItem returns).
C16_UnknownKindsIsolated ==
    isoPc = "done" => SameAsWithout({e \in IsoNodes : e.typename \in UnknownKinds})

\* an event of unknown kind stands between two status events, and durations
\* were computed
C16_Witness ==
    /\ isoPc = "done"
    /\ Len(isoItem.events) = 3
    /\ isoItem.events[1].typename = "MovedColumnsInProjectEvent"
    /\ isoItem.events[2].typename \in UnknownKinds
    /\ isoItem.events[3].typename = "ProjectV2ItemStatusChangedEvent"
    /\ Len(isoCmd.history) = 2
    /\ Len(isoCmd.statusDurations) >= 2

\* C17: an event with a missing actor or a missing timestamp is skipped: it
\* gives no history item and leaves the history items and durations of the
\* other events as they are.
C17_PartialEventsSkipped ==
    isoPc = "done" => SameAsWithout({e \in IsoNodes : e.actor = "" \/ e.createdAt = 0})

-----------------------------------------------------------------------------
(* Specification of one sync whose connectors may fail *)

\* error.message of what fetch threw; 'Unknown error' when it is not an Error
FetchErrors == {"Bad credentials", "Unknown error"}

\* the catch of ActivityConnector.execute
FailedResult(name, errorMessage) ==
    [activities |-> <<>>, connectorName |-> name, success |-> FALSE,
     error |-> errorMessage, count |-> 0]

StartOnlySync ==
    /\ runs = <<>>
    /\ StartSync

IssuesFail ==
    /\ syncPc = "issues"
    /\ \E msg \in FetchErrors : Collect(FailedResult("issues", msg), "prs")

PRsFail ==
    /\ syncPc = "prs"
    /\ \E msg \in FetchErrors : Collect(FailedResult("prs", msg), "commits")

CommitsFail ==
    /\ syncPc = "commits"
    /\ \E msg \in FetchErrors : Collect(FailedResult("commits", msg), "save")

\* the database is not configured or not reachable, or a date cannot be
\* parsed: process.exit(1) before any connector is created
SetupFails ==
    /\ syncPc = "world" /\ runs = <<>>
    /\ syncPc' = "idle"
    /\ exitStatus' = <<1>>
    /\ UNCHANGED <<exceptSync, worldVars, table, dbNow, window, clock, results, allActivities,
                    saveResult, lastWrite, runs, singles>>

NextFaulty ==
    \/ AddIssueEvent \/ AddComment \/ AddReview \/ AddCommit
    \/ StartOnlySync \/ SetupFails
    \/ RunIssues \/ IssuesFail
    \/ RunPRs \/ PRsFail
    \/ RunCommits \/ CommitsFail
    \/ SaveAll

SpecFaulty == InitSync /\ [][NextFaulty]_vars

\* what the connector of that name fetches from the world for the window
FetchOf(name) ==
    CASE name = "issues" -> IssuesConnector_fetch(<<ghIssue>>, window.from, window.to)
      [] name = "prs" -> PRsConnector_fetch(<<ghPR>>, window.from, window.to)
      [] name = "commits" -> CommitsConnector_fetch(gitLog, window.from, window.to, clock)

ElementsOf(seq) == {seq[k] : k \in 1..Len(seq)}

\* C18: in sync-activities, a connector whose fetch throws gets a result with
\* success = false, the error message and no activities; the other connectors
\* are still executed, and their activities are collected and saved.
C18_FailureIsContained ==
    (syncPc = "idle" /\ results # <<>>) =>
        /\ [k \in 1..Len(results) |-> results[k].connectorName] = <<"issues", "prs", "commits">>
        /\ \A k \in 1..Len(results) :
              IF results[k].success
              THEN /\ results[k].activities = FetchOf(results[k].connectorName)
                   /\ ElementsOf(results[k].activities) \subseteq ElementsOf(allActivities)
                   /\ saveResult.errors = 0 =>
                         {generateActivityKey(a) : a \in ElementsOf(results[k].activities)}
                             \subseteq KeysOf(table)
              ELSE /\ results[k].error \in FetchErrors
                   /\ results[k].activities = <<>>
                   /\ results[k].count = 0
        /\ Len(allActivities) =
              Len(results[1].activities) + Len(results[2].activities) + Len(results[3].activities)

\* the first connector failed, a later one fetched activities, and they are
\* in the table
C18_Witness ==
    /\ syncPc = "idle"
    /\ Len(results) = 3
    /\ ~results[1].success
    /\ results[2].success /\ results[2].count > 0
    /\ saveResult.saved = results[2].count + results[3].count
    /\ Cardinality(table) > 0

-----------------------------------------------------------------------------
(* Specification of two syncs that write to the table at the same time *)

Syncs == {"A", "B"}

\* what git log prints for the repository, newest first
CwLog ==
    <<[author |-> "alice", date |-> Tb, hash |-> "9b8d7e6", message |-> "tidy",
       repository |-> "app"],
      [author |-> "alice", date |-> T1, hash |-> "3f2a9c1", message |-> "fix",
       repository |-> "app"],
      [author |-> "alice", date |-> Ta, hash |-> "c0ffee1", message |-> "init",
       repository |-> "app"]>>

\* the VALUES of the one statement a sync of that window sends: the sorted
\* activities (at most batchSize of them), each with its key
StatementRows(w, now) ==
    The({[k \in 1..Len(sorted) |-> toNewActivity(sorted[k], generateActivityKey(sorted[k]))] :
         sorted \in {SortByDate(CommitsConnector_fetch(CwLog, w.from, w.to, now))}})

\* the unique constraint uq_activities_unique_key
UniqueKeyHolds(tbl) == \A r1, r2 \in tbl : r1.uniqueKey = r2.uniqueKey => r1 = r2

\* a statement that inserts without an ON CONFLICT clause
ExecuteRow_PlainInsert(tbl, new, now) ==
    IF new.uniqueKey \in KeysOf(tbl)
    THEN [ok |-> FALSE, table |-> tbl]
    ELSE [ok |-> TRUE, table |-> tbl \cup {NewRow(tbl, new, now)}]

\* one row of the statement against the table as it is then: the insert or
\* the update, refused when it would break the unique constraint
ExecuteRow(tbl, new, now) ==
    The({IF UniqueKeyHolds(after)
         THEN [ok |-> TRUE, table |-> after]
         ELSE [ok |-> FALSE, table |-> tbl] :
         after \in {UpsertRow(tbl, new, now)}})

InitConcurrent ==
    /\ OffExceptCw
    /\ cwTable = {}
    /\ cwNow = 1
    /\ \E wa, wb \in Windows, ca, cb \in Clocks :
          cwWriters = [s \in Syncs |->
              [rows |-> IF s = "A" THEN StatementRows(wa, ca) ELSE StatementRows(wb, cb),
               next |-> 1, now |-> 0, state |-> "ready"]]

\* saveActivities of the repository sends its statement; NOW() is the time
\* the statement starts. Without activities nothing is sent.
BeginStatement ==
    \E s \in Syncs :
        /\ cwWriters[s].state = "ready"
        /\ cwWriters' = [cwWriters EXCEPT
               ![s].state = IF cwWriters[s].rows = <<>> THEN "done" ELSE "running",
               ![s].now = cwNow]
        /\ cwNow' = cwNow + 1
        /\ UNCHANGED <<cwTable, exceptCw>>

\* the database executes the next row of a running statement
ExecuteNextRow ==
    \E s \in Syncs :
        /\ cwWriters[s].state = "running"
        /\ cwWriters[s].next <= Len(cwWriters[s].rows)
        /\ \E r \in {ExecuteRow(cwTable, cwWriters[s].rows[cwWriters[s].next],
                                  cwWriters[s].now)} :
              /\ cwTable' = r.table
              /\ cwWriters' = [cwWriters EXCEPT
                     ![s].next = @ + 1,
                     ![s].state = IF r.ok THEN "running" ELSE "failed"]
        /\ UNCHANGED <<cwNow, exceptCw>>

\* the statement returns its ids
EndStatement ==
    \E s \in Syncs :
        /\ cwWriters[s].state = "running"
        /\ cwWriters[s].next > Len(cwWriters[s].rows)
        /\ cwWriters' = [cwWriters EXCEPT ![s].state = "done"]
        /\ UNCHANGED <<cwTable, cwNow, exceptCw>>

NextConcurrent == BeginStatement \/ ExecuteNextRow \/ EndStatement

SpecConcurrent == InitConcurrent /\ [][NextConcurrent]_vars

StatementKeys(s) == {cwWriters[s].rows[k].uniqueKey : k \in 1..Len(cwWriters[s].rows)}

\* C19: when two syncs over overlapping windows write at the same time, then
\* for every interleaving of their atomic per-row insert-or-update steps
\* neither fails on the unique key, the table never holds two rows of one
\* key, and it ends with exactly one row for each key either sync wrote;
\* the syncs share nothing but the table.
C19_ConcurrentUpserts ==
    /\ \A s \in Syncs : cwWriters[s].state # "failed"
    /\ UniqueKeyHolds(cwTable)
    /\ Cardinality(KeysOf(cwTable)) = Cardinality(cwTable)
    /\ (\A s \in Syncs : cwWriters[s].state = "done") =>
          KeysOf(cwTable) = StatementKeys("A") \cup StatementKeys("B")

\* both statements are over, and they crossed: one row was inserted by A and
\* then updated by B, another inserted by B and then updated by A
C19_Witness ==
    /\ \A s \in Syncs : cwWriters[s].state = "done"
    /\ \E r1, r2 \in cwTable :
          /\ r1.createdAt = cwWriters["A"].now /\ r1.updatedAt = cwWriters["B"].now
          /\ r2.createdAt = cwWriters["B"].now /\ r2.updatedAt = cwWriters["A"].now

-----------------------------------------------------------------------------
(* Specification of one list of activities written in batches *)

MaxChunks == 2

\* list lengths at and just past the borders of the service's batches and of
\* the repository's chunks
BwSizes ==
    {n \in 0..(MaxChunks * BATCH_SIZE + 1) : n % batchSize \in {0, 1}}

\* the positions a record that repeats the key of the record before it is put
\* at: inside a batch, and first of a batch or of a chunk
BwDupPositions(n) == {k \in 2..n : k % batchSize \in {1, 2}}

\* the k-th activity of the list: a commit; the one at `bad` has lost its
\* author, which toNewActivity refuses; the one at `dup` is the commit before
\* it, fetched again with an amended message
BwActivity(k, bad, dup) ==
    LET c == IF k = dup THEN k - 1 ELSE k
    IN  CommitActivity([author |-> IF k = bad THEN "" ELSE "alice",
                        date |-> T0 + c * MsPerSecond,
                        hash |-> "c" \o ToString(c),
                        message |-> IF k = dup THEN "fix (amended)" ELSE "fix",
                        repository |-> "app"])

EmptyDb == [table |-> {}, now |-> 1, last |-> NoWrite]

InitBatch ==
    /\ OffExceptBw
    /\ \E n \in BwSizes : \E bad \in 0..n : \E dup \in {0} \cup BwDupPositions(n) :
          /\ bad = 0 \/ dup = 0
          /\ bwList = [k \in 1..n |-> BwActivity(k, bad, dup)]
    /\ bwTable = {}
    /\ bwService = <<>>
    /\ bwHandler = <<>>
    /\ bwPc = "input"

\* sync-activities: service.saveActivities(allActivities)
SaveThroughService ==
    /\ bwPc = "input"
    /\ \E r \in {ActivityService_saveActivities(bwList, EmptyDb)} :
          /\ bwService' = [saved |-> r.saved, errors |-> r.errors, ranges |-> r.ranges,
                            statements |-> r.db.now - EmptyDb.now]
          /\ bwTable' = r.db.table
    /\ bwPc' = "service"
    /\ UNCHANGED <<bwList, bwHandler, exceptBw>>

\* the ACTIVITIES_BATCH handler: the repository's saveActivities on the whole
\* payload; a throw is caught and its message printed
SaveOnBatchEvent ==
    /\ bwPc = "input"
    /\ \E r \in {saveActivities(bwList, EmptyDb)} :
          /\ bwHandler' = [ok |-> r.ok, ids |-> Len(r.ids), range |-> r.range]
          /\ bwTable' = r.db.table
    /\ bwPc' = "handler"
    /\ UNCHANGED <<bwList, bwService, exceptBw>>

NextBatch == SaveThroughService \/ SaveOnBatchEvent

SpecBatch == InitBatch /\ [][NextBatch]_vars

\* the positions of the submitted records that cannot be written
BadPositions == {k \in 1..Len(bwList) : bwList[k].author = ""}

BwKeys(from, to) == {generateActivityKey(bwList[k]) : k \in from..to}

\* C20: batch writes are chunked; when one chunk fails, the reported error
\* names the range of the submitted records that failed, and the records of
\* the chunks committed before it stay in the table and are counted as saved.
C20_ChunkFailureReported ==
    (bwPc = "service" /\ BadPositions # {}) =>
        \E bad \in BadPositions :
            /\ bwService.errors = 1
            /\ bwService.ranges[1].first <= bad /\ bad <= bwService.ranges[1].last
            /\ BwKeys(1, bwService.ranges[1].first - 1) \subseteq KeysOf(bwTable)
            /\ bwService.saved >= bwService.ranges[1].first - 1

\* the repository on its own names the failing chunk by the positions of the
\* list it was given, and leaves the chunks before it in the table
Repository_RangeOfFailedChunk ==
    (bwPc = "handler" /\ BadPositions # {}) =>
        \E bad \in BadPositions :
            /\ ~bwHandler.ok
            /\ bwHandler.range.first <= bad /\ bad <= bwHandler.range.last
            /\ bwHandler.range.last - bwHandler.range.first < BATCH_SIZE
            /\ bwHandler.range.of = Len(bwList)
            /\ KeysOf(bwTable) = BwKeys(1, bwHandler.range.first - 1)

\* the service counts every batch but the failed one, whose records are not
\* in the table
Service_CountsOtherBatches ==
    (bwPc = "service" /\ BadPositions # {}) =>
        /\ bwService.errors = 1
        /\ bwService.saved = Cardinality(bwTable)
        /\ Len(bwList) - bwService.saved \in 1..batchSize

-----------------------------------------------------------------------------
(* The exit status and the order of the steps of sync-activities *)

\* C21: sync-activities exits with status zero when the sync completes with
\* at least one source succeeded, and with a non-zero status when zero
\* sources succeeded.
C21_ExitStatus ==
    (syncPc = "idle" /\ Len(results) = 3 /\ exitStatus # <<>>) =>
        (exitStatus = <<0>> <=> \E k \in 1..Len(results) : results[k].success)

\* the half of it the command does: a sync that completes with at least one
\* source succeeded exits with status zero
SomeSourceSucceeded_ExitsZero ==
    (syncPc = "idle" /\ Len(results) = 3 /\ \E k \in 1..Len(results) : results[k].success)
        => exitStatus = <<0>>

-----------------------------------------------------------------------------
(* More properties of calculateWorkingTime *)

\* C22: a working calendar with startHour >= endHour or without any working
\* weekday is rejected at startup; no duration is ever computed with such a
\* calendar.
C22_BadCalendarRejected ==
    wtPc = "done" => (wtCal.startHour < wtCal.endHour /\ wtCal.workingDays # {})

\* what the code does with such a calendar: it computes, and the result is 0
BadCalendar_GivesZero ==
    (wtPc = "done" /\ (wtCal.startHour >= wtCal.endHour \/ wtCal.workingDays = {}))
        => wtResult = 0

\* the activities of the connectors' results, in the order they were collected
Collected ==
    IF Len(results) = 3
    THEN results[1].activities \o results[2].activities \o results[3].activities
    ELSE <<>>

AscendingByDate(acts) ==
    \A i, j \in 1..Len(acts) : i < j => acts[i].date <= acts[j].date

\* C23: the combined list that sync-activities saves and reports is sorted by
\* date ascending, and the sort (and the save) happens only after every
\* connector has finished, with success or not, never on a part of the list.
C23_SortedAfterAllConnectors ==
    /\ syncPc = "save" => Len(results) = 3
    /\ (syncPc = "idle" /\ Len(results) = 3) =>
          /\ AscendingByDate(allActivities)
          /\ Len(allActivities) = Len(Collected)
          /\ ElementsOf(allActivities) = ElementsOf(Collected)
          /\ saveResult.errors = 0 =>
                KeysOf(table) = {generateActivityKey(a) : a \in ElementsOf(allActivities)}

\* a sync is over in which a connector failed and the other two returned
\* activities that were not in date order when collected
C23_Witness ==
    /\ syncPc = "idle" /\ Len(results) = 3
    /\ \E k \in 1..3 : ~results[k].success
    /\ ~AscendingByDate(Collected)
    /\ AscendingByDate(allActivities)
    /\ saveResult.saved = Len(allActivities)

-----------------------------------------------------------------------------
(* Properties of the status durations and of the order of the history *)

StatusKinds == {"MovedColumnsInProjectEvent", "ProjectV2ItemStatusChangedEvent"}

\* the events of `evts` by ascending time, those of one time in arrival order
RECURSIVE StableByTime(_, _)
StableByTime(evts, times) ==
    IF times = {} THEN <<>>
    ELSE LET m == CHOOSE t \in times : \A u \in times : t <= u
             AtM(e) == e.createdAt = m
         IN  SelectSeq(evts, AtM) \o StableByTime(evts, times \ {m})

\* the status events of the issue in the order of time
StatusEventsOf(it) ==
    LET IsStatus(e) == e.typename \in StatusKinds
        evts == SelectSeq(it.events, IsStatus)
    IN  StableByTime(evts, {evts[k].createdAt : k \in 1..Len(evts)})

EnteredBy(e) ==
    IF e.typename = "MovedColumnsInProjectEvent" THEN e.projectColumnName ELSE e.status

\* the intervals the status events cut [createdAt, toDate] into, each with
\* the status the issue was in
StatusIntervals(it, toDate) ==
    LET evts == StatusEventsOf(it)
        n == Len(evts)
    IN  [i \in 1..(n + 1) |->
            [status |-> IF i > 1 THEN EnteredBy(evts[i - 1])
                        ELSE IF n > 0 /\ evts[1].typename = "ProjectV2ItemStatusChangedEvent"
                             THEN evts[1].previousStatus
                             ELSE "Initial",
             from |-> IF i = 1 THEN it.createdAt ELSE evts[i - 1].createdAt,
             to |-> IF i <= n THEN evts[i].createdAt ELSE toDate]]

RECURSIVE TotalOf(_, _, _)
TotalOf(status, intervals, config) ==
    IF intervals = <<>> THEN 0
    ELSE (IF Head(intervals).status = status
          THEN calculateWorkingTime(Head(intervals).from, Head(intervals).to, config)
          ELSE 0) + TotalOf(status, Tail(intervals), config)

\* the statuses the issue was in during more than one interval
RecurringStatuses(intervals) ==
    {s \in {intervals[i].status : i \in 1..Len(intervals)} :
        Cardinality({i \in 1..Len(intervals) : intervals[i].status = s}) > 1}

\* a recurring status has one entry, and it holds the sum of its intervals
SummedOnce(statusDurations, intervals) ==
    \A s \in RecurringStatuses(intervals) :
        TotalOf(s, intervals, DefaultConfig) > 0 =>
            /\ Cardinality({k \in 1..Len(statusDurations) : statusDurations[k].status = s}) = 1
            /\ \A k \in 1..Len(statusDurations) :
                  statusDurations[k].status = s =>
                      statusDurations[k].durationMs = TotalOf(s, intervals, DefaultConfig)

\* C24: a status that recurs in an issue's timeline appears in
\* statusDurations once, with the sum of the working time of all its
\* intervals (not its last interval alone, not one entry per interval).
C24_RecurringStatusSummed ==
    isoPc = "done" =>
        /\ SummedOnce(isoCmd.statusDurations, StatusIntervals(isoItem, IsoToDate))
        /\ SummedOnce(isoCore.statusDurations, StatusIntervals(isoItem, IsoToDate))

\* processItem of commands/fetch-issues.ts does sum a recurring status once
FetchIssues_RecurringStatusSummed ==
    isoPc = "done" =>
        SummedOnce(isoCmd.statusDurations, StatusIntervals(isoItem, IsoToDate))

\* Doing, then Todo, then Doing again: both Doing intervals hold working time
FetchIssues_RecurringWitness ==
    /\ isoPc = "done"
    /\ Len(isoItem.events) = 2
    /\ isoItem.events[1].previousStatus = "Doing" /\ isoItem.events[1].status = "Todo"
    /\ isoItem.events[2].previousStatus = "Todo" /\ isoItem.events[2].status = "Doing"
    /\ isoItem.events[1].createdAt < isoItem.events[2].createdAt
    /\ isoCmd.statusDurations =
          <<[status |-> "Doing", durationMs |-> 7 * (MsPerHour \div 2)],
            [status |-> "Todo", durationMs |-> 11 * (MsPerHour \div 2)]>>

\* every node of the timeline has all its fields
AllWellFormed == \A k \in 1..Len(isoItem.events) : isoItem.events[k] \in WellFormedNodes

AscendingByWhen(history) ==
    \A i, j \in 1..Len(history) : i < j => history[i].when <= history[j].when

\* ascending, and items of one time in the order their events arrived
StableByWhen(history) ==
    \A i, j \in 1..Len(history) :
        i < j => \/ history[i].when < history[j].when
                 \/ history[i].when = history[j].when /\ history[i].at < history[j].at

\* C25: processItem orders an issue's events ascending by timestamp, ties in
\* arrival order, whatever the order the raw events arrive in, and the
\* history it returns is in that chronological order.
C25_HistoryChronological ==
    (isoPc = "done" /\ AllWellFormed) =>
        /\ StableByWhen(isoCore.history)
        /\ AscendingByWhen(isoCmd.history)

\* processItem of core/issue-processor.ts returns its history sorted
Core_HistoryChronological ==
    (isoPc = "done" /\ AllWellFormed) => StableByWhen(isoCore.history)

\* an event arrived before an earlier one and two events share a time
Core_HistoryWitness ==
    /\ isoPc = "done" /\ AllWellFormed
    /\ Len(isoCore.history) = 3
    /\ isoItem.events[1].createdAt > isoItem.events[2].createdAt
    /\ isoItem.events[1].createdAt = isoItem.events[3].createdAt

\* the event kinds the claim names, and the category of the history item of each
StatusChangedKinds == {"ProjectV2ItemStatusChangedEvent"}
CategoryOf(typename) ==
    CASE typename \in StatusChangedKinds -> "status"
      [] typename \in {"LabeledEvent", "UnlabeledEvent"} -> "label"
      [] typename \in {"AssignedEvent", "UnassignedEvent"} -> "assignment"
      [] typename \in {"ClosedEvent", "ReopenedEvent"} -> "state_change"
      [] OTHER -> ""

\* event k of the issue has exactly one item in `history`, of its category
MappedOnce(history, k) ==
    /\ Cardinality({i \in 1..Len(history) : history[i].at = k}) = 1
    /\ \A i \in 1..Len(history) :
          history[i].at = k => /\ history[i].type = CategoryOf(isoItem.events[k].typename)
                               /\ history[i].when = isoItem.events[k].createdAt

\* what IssuesConnector.fetch returns for the issue in a sync window that
\* holds every instant of the inputs and the issue's updatedAt
IsoWindowEnd == IsoToDate + MsPerHour
IsoFetched == IssuesConnector_fetch(<<IsoIssue(isoItem)>>, IsoCreatedAt, IsoWindowEnd)

\* event k gave exactly one activity, of type issue_status_change
OneStatusChangeActivity(activities, k) ==
    /\ Cardinality({i \in 1..Len(activities) : activities[i].src = <<"issue", k>>}) = 1
    /\ \A i \in 1..Len(activities) :
          activities[i].src = <<"issue", k>> => activities[i].type = "issue_status_change"

\* C26: every raw event of a recognized kind (status-changed, labeled,
\* unlabeled, assigned, unassigned, closed, reopened) that carries a timestamp
\* gives exactly one history item, of category status, label, assignment or
\* state; a status-changed event inside the sync window gives one
\* issue_status_change activity from the issues connector.
C26_RecognizedKindsMapped ==
    isoPc = "done" =>
        \A k \in 1..Len(isoItem.events) :
            LET e == isoItem.events[k]
            IN  (CategoryOf(e.typename) # "" /\ e.createdAt # 0) =>
                    /\ MappedOnce(isoCore.history, k)
                    /\ e.typename \in StatusChangedKinds =>
                          OneStatusChangeActivity(IsoFetched, k)

\* the six kinds of the switch of processTimelineEvent are mapped once each
Core_SwitchKindsMapped ==
    isoPc = "done" =>
        \A k \in 1..Len(isoItem.events) :
            LET e == isoItem.events[k]
            IN  (CategoryOf(e.typename) \notin {"", "status"} /\ e.createdAt # 0) =>
                    /\ MappedOnce(isoCore.history, k)
                    /\ Cardinality({i \in 1..Len(IsoFetched) :
                                       IsoFetched[i].src = <<"issue", k>>}) = 1

\* an unlabeled, an assigned and a reopened event were all mapped
Core_SwitchKindsWitness ==
    /\ isoPc = "done"
    /\ Len(isoItem.events) = 3
    /\ isoItem.events[1].typename = "UnlabeledEvent"
    /\ isoItem.events[2].typename = "AssignedEvent"
    /\ isoItem.events[3].typename = "ReopenedEvent"
    /\ Len(isoCore.history) = 3
    /\ Len(IsoFetched) = 3

\* the issues connector never gives an issue_status_change activity
Core_NoStatusChangeActivity ==
    isoPc = "done" =>
        \A i \in 1..Len(IsoFetched) : IsoFetched[i].type # "issue_status_change"

\* the instants b of the inputs with wtStart <= b <= wtEnd
Between == {b \in WtInstants : wtStart <= b /\ b <= wtEnd}

\* the working time of [wtStart, b] plus that of [b, wtEnd]
SplitAt(b) ==
    calculateWorkingTime(wtStart, b, wtCal) + calculateWorkingTime(b, wtEnd, wtCal)

InWorkingHours(b, config) ==
    /\ Weekday(b) \in config.workingDays
    /\ DateStr(b) \notin config.holidays
    /\ b > StartOfDay(b) + config.startHour * MsPerHour
    /\ b < StartOfDay(b) + config.endHour * MsPerHour

\* C27: for every calendar and all instants a <= b <= c, the working time of
\* [a, b] plus the working time of [b, c] is the working time of [a, c], also
\* when b is outside working hours, on a non-working day, or on the day of a
\* or of c.
C27_Additive ==
    wtPc = "done" => \A b \in Between : SplitAt(b) = wtResult

\* a span with working time on both sides of an instant b inside working
\* hours on the day of wtStart, of an instant b at night on a worked day, and
\* of an instant b on a day off
C27_Witness ==
    /\ wtPc = "done"
    /\ wtResult > 0
    /\ \E b \in Between :
          /\ IsSameDay(b, wtStart) /\ InWorkingHours(b, wtCal)
          /\ calculateWorkingTime(wtStart, b, wtCal) > 0
          /\ calculateWorkingTime(b, wtEnd, wtCal) > 0
    /\ \E b \in Between :
          /\ Weekday(b) \in wtCal.workingDays
          /\ b > StartOfDay(b) + wtCal.endHour * MsPerHour
          /\ calculateWorkingTime(wtStart, b, wtCal) > 0
          /\ calculateWorkingTime(b, wtEnd, wtCal) > 0
    /\ \E b \in Between :
          /\ Weekday(b) \notin wtCal.workingDays
          /\ calculateWorkingTime(wtStart, b, wtCal) > 0
          /\ calculateWorkingTime(b, wtEnd, wtCal) > 0

-----------------------------------------------------------------------------
(* Records of one key in one list *)

\* the positions of the records that carry the key of the record before them
DupAt ==
    {k \in 2..Len(bwList) :
        /\ bwList[k].description = "fix (amended)"
        /\ generateActivityKey(bwList[k]) = generateActivityKey(bwList[k - 1])}

\* records k - 1 and k go into one chunk of `size`
SameChunk(k, size) == (k - 1) \div size = (k - 2) \div size

\* the size of the lists the repository's saveActivities is called with
ChunkSize == IF bwPc = "service" THEN batchSize ELSE BATCH_SIZE

BwFailed == IF bwPc = "service" THEN bwService.errors > 0 ELSE ~bwHandler.ok

\* the table holds one row for the key of record k, with the values of record k
OneRowOf(k) ==
    LET new == toNewActivity(bwList[k], generateActivityKey(bwList[k]))
        rows == {r \in bwTable : r.uniqueKey = new.uniqueKey}
    IN  /\ Cardinality(rows) = 1
        /\ \A r \in rows : r.title = new.title /\ r.description = new.description

\* C28: a chunk passed to saveActivities in which two records have the same
\* dedup key is persisted without error, ending with one row for that key that
\* holds the values of the later record; the collision never makes the whole
\* chunk fail.
C28_CollisionInChunkPersisted ==
    bwPc \in {"service", "handler"} =>
        \A k \in DupAt : SameChunk(k, ChunkSize) => (~BwFailed /\ OneRowOf(k))

\* what happens: the statement of that chunk fails, and none of the chunk's
\* records is written
Collision_FailsWholeChunk ==
    bwPc \in {"service", "handler"} =>
        \A k \in DupAt :
            SameChunk(k, ChunkSize) =>
                /\ BwFailed
                /\ \A j \in 1..Len(bwList) :
                      (j - 1) \div ChunkSize = (k - 1) \div ChunkSize =>
                          generateActivityKey(bwList[j]) \notin KeysOf(bwTable)

\* two records of one key in different chunks: the later one overwrites
Collision_AcrossChunksLaterWins ==
    bwPc \in {"service", "handler"} =>
        \A k \in DupAt : ~SameChunk(k, ChunkSize) => (~BwFailed /\ OneRowOf(k))

Collision_AcrossChunksWitness ==
    /\ bwPc = "handler"
    /\ \E k \in DupAt : ~SameChunk(k, ChunkSize)
    /\ bwHandler.ok
    /\ Cardinality(bwTable) = Len(bwList) - 1

-----------------------------------------------------------------------------
(* The result of ActivityService.saveActivities *)

\* the batch of 50 that record k is in, counted from 0
BatchOf(k) == (k - 1) \div batchSize

\* the batches whose write fails: one with a record toNewActivity refuses, or
\* with one key twice
FailedBatches ==
    {BatchOf(k) : k \in BadPositions} \cup
    {BatchOf(k) : k \in {d \in DupAt : SameChunk(d, batchSize)}}

\* C29: ActivityService.saveActivities never throws: when the write of one
\* batch of 50 fails an error is added to errors, all later batches are still
\* attempted, and saved is the number of records in the batches that were
\* committed (at most activities.length); an empty input gives saved = 0 and
\* no errors without touching the database.
C29_ServiceReturnsCounts ==
    bwPc = "service" =>
        \A failed \in {FailedBatches} : \A keys \in {KeysOf(bwTable)} :
            \A inFailed \in {{k \in 1..Len(bwList) : BatchOf(k) \in failed}} :
                /\ bwService.errors = Cardinality(failed)
                /\ bwService.saved = Len(bwList) - Cardinality(inFailed)
                /\ bwService.saved <= Len(bwList)
                /\ \A k \in 1..Len(bwList) :
                      k \notin inFailed => generateActivityKey(bwList[k]) \in keys
                /\ bwList = <<>> =>
                      /\ bwService.saved = 0 /\ bwService.errors = 0
                      /\ bwService.statements = 0 /\ bwTable = {}

\* the first batch failed and the batches after it were written
C29_Witness ==
    /\ bwPc = "service"
    /\ FailedBatches = {0}
    /\ bwService.errors = 1
    /\ Len(bwList) > 2 * batchSize
    /\ bwService.saved = Len(bwList) - batchSize
    /\ Cardinality(bwTable) = bwService.saved

\* the empty input
C29_EmptyWitness ==
    /\ bwPc = "service"
    /\ bwList = <<>>
    /\ bwService.saved = 0 /\ bwService.errors = 0

-----------------------------------------------------------------------------
(* core/event-bus.ts: EventBus *)

MaxSubs == 3          \* calls of subscribe
MaxPublishes == 2     \* calls of publish
MaxCalls == 2         \* calls of one unsubscribe function from outside

EventTypes == {"ACTIVITY_CREATED", "ACTIVITIES_BATCH"}

\* the handler functions subscribers hand in, by what their body does:
\*   "save"    awaits the repository and resolves (registerActivityHandlers:
\*             both handlers catch what the repository throws)
\*   "throws"  throws before its first await
\*   "rejects" returns a promise that rejects later
\*   "once"    calls the unsubscribe function subscribe gave it, then returns
HandlerNames == {"save", "throws", "rejects", "once"}

\* currentHandlers.indexOf(handler), counted from 1; 0 for -1
IndexOf(handlers, handler) ==
    IF \E i \in 1..Len(handlers) : handlers[i] = handler
    THEN CHOOSE i \in 1..Len(handlers) :
            /\ handlers[i] = handler
            /\ \A j \in 1..(i - 1) : handlers[j] # handler
    ELSE 0

\* currentHandlers.splice(index, 1)
Splice(handlers, index) ==
    SubSeq(handlers, 1, index - 1) \o SubSeq(handlers, index + 1, Len(handlers))

\* one call of the function returned by subscribe: [handlers, subs]
Unsubscribed(handlers, subs, u) ==
    LET index == IndexOf(handlers[subs[u].type], subs[u].handler)
    IN  [handlers |-> IF index > 0
                      THEN [handlers EXCEPT ![subs[u].type] = Splice(@, index)]
                      ELSE handlers,
         subs |-> [subs EXCEPT ![u].calls = @ + 1,
                               ![u].removed = IF index > 0 THEN @ + 1 ELSE @]]

\* the unsubscribe function the body of "once" holds: that of its first
\* subscription to the type
OwnUnsubscribe(subs, type, handler) ==
    CHOOSE u \in 1..Len(subs) :
        /\ subs[u].type = type /\ subs[u].handler = handler
        /\ \A v \in 1..(u - 1) : ~(subs[v].type = type /\ subs[v].handler = handler)

\* the async arrow function of lines 55-61 around a handler that ends with
\* `outcome`: the catch logs and the wrapper's promise is fulfilled
Wrapped(outcome) ==
    [settled |-> "fulfilled", logged |-> IF outcome = "rejected" THEN 1 ELSE 0]

\* handlers.map(...) of publish: the callback runs for the indexes 1..len (the
\* length when map started) that the array still has when map gets to them;
\* each handler runs up to its first await inside the callback.
\* st = [handlers, subs, invoked, unsettled, logged, rejections]
RECURSIVE MapHandlers(_, _, _, _)
MapHandlers(type, k, len, st) ==
    IF k > len THEN st
    ELSE IF k > Len(st.handlers[type]) THEN MapHandlers(type, k + 1, len, st)
    ELSE
        LET handler == st.handlers[type][k]
            invoked == Append(st.invoked, handler)
            un == IF handler = "once"
                  THEN Unsubscribed(st.handlers, st.subs, OwnUnsubscribe(st.subs, type, handler))
                  ELSE [handlers |-> st.handlers, subs |-> st.subs]
            w == Wrapped(IF handler = "throws" THEN "rejected" ELSE "fulfilled")
            pending == handler \in {"save", "rejects"}
        IN  MapHandlers(type, k + 1, len,
                [handlers |-> un.handlers, subs |-> un.subs, invoked |-> invoked,
                 unsettled |-> IF pending THEN st.unsettled \cup {Len(invoked)}
                               ELSE st.unsettled,
                 logged |-> IF pending THEN st.logged ELSE st.logged + w.logged,
                 rejections |-> IF ~pending /\ w.settled = "rejected"
                                THEN st.rejections + 1 ELSE st.rejections])

NoPublish ==
    [n |-> 0, state |-> "idle", type |-> "", subscribed |-> <<>>, live |-> {},
     invoked |-> <<>>, unsettled |-> {}, logged |-> 0, rejections |-> 0]

InitBus ==
    /\ OffExceptEb
    /\ ebHandlers = [t \in EventTypes |-> <<>>]
    /\ ebSubs = <<>>
    /\ ebPub = NoPublish
    /\ ebPc = "on"

\* subscribe(eventType, handler)
Subscribe ==
    /\ ebPc = "on"
    /\ Len(ebSubs) < MaxSubs
    /\ \E type \in EventTypes, handler \in HandlerNames :
          /\ ebHandlers' = [ebHandlers EXCEPT ![type] = Append(@, handler)]
          /\ ebSubs' = Append(ebSubs, [type |-> type, handler |-> handler,
                                       calls |-> 0, removed |-> 0])
    /\ UNCHANGED <<ebPub, ebPc, exceptEb>>

\* a call, from outside the handlers, of a function subscribe returned
Unsubscribe ==
    /\ ebPc = "on"
    /\ \E u \in 1..Len(ebSubs) :
          /\ ebSubs[u].calls < MaxCalls
          /\ \E r \in {Unsubscribed(ebHandlers, ebSubs, u)} :
                /\ ebHandlers' = r.handlers
                /\ ebSubs' = r.subs
    /\ UNCHANGED <<ebPub, ebPc, exceptEb>>

\* the handlers whose subscription to `type` has not been taken back
Live(subs, type) ==
    {subs[u].handler : u \in {v \in 1..Len(subs) : subs[v].type = type /\ subs[v].calls = 0}}

\* publish(event), up to the await of Promise.all
Publish ==
    /\ ebPc = "on"
    /\ ebPub.state # "pending"
    /\ ebPub.n < MaxPublishes
    /\ \E type \in EventTypes :
        \E st \in {MapHandlers(type, 1, Len(ebHandlers[type]),
                       [handlers |-> ebHandlers, subs |-> ebSubs, invoked |-> <<>>,
                        unsettled |-> {}, logged |-> 0, rejections |-> 0])} :
          /\ ebHandlers' = st.handlers
          /\ ebSubs' = st.subs
          /\ ebPub' = [n |-> ebPub.n + 1, state |-> "pending", type |-> type,
                       subscribed |-> ebHandlers[type], live |-> Live(ebSubs, type),
                       invoked |-> st.invoked, unsettled |-> st.unsettled,
                       logged |-> st.logged, rejections |-> st.rejections]
    /\ UNCHANGED <<ebPc, exceptEb>>

\* the promise of one handler settles; the wrapper around it goes on
Settle ==
    /\ ebPub.state = "pending"
    /\ \E k \in ebPub.unsettled :
        \E w \in {Wrapped(IF ebPub.invoked[k] = "rejects" THEN "rejected" ELSE "fulfilled")} :
          ebPub' = [ebPub EXCEPT !.unsettled = @ \ {k},
                                 !.logged = @ + w.logged,
                                 !.rejections = IF w.settled = "rejected" THEN @ + 1 ELSE @]
    /\ UNCHANGED <<ebHandlers, ebSubs, ebPc, exceptEb>>

\* Promise.all settles: rejected with the first rejection among the wrappers,
\* fulfilled when all of them are
PublishReturns ==
    /\ ebPub.state = "pending"
    /\ ebPub.rejections > 0 \/ ebPub.unsettled = {}
    /\ ebPub' = [ebPub EXCEPT !.state = IF ebPub.rejections > 0 THEN "rejected"
                                        ELSE "resolved"]
    /\ UNCHANGED <<ebHandlers, ebSubs, ebPc, exceptEb>>

NextBus == Subscribe \/ Unsubscribe \/ Publish \/ Settle \/ PublishReturns

SpecBus == InitBus /\ [][NextBus]_vars

\* how often handler h stands in a list
Count(list, h) == Cardinality({i \in 1..Len(list) : list[i] = h})

\* every handler subscribed to the event's type when publish was called has
\* been invoked once per subscription
InvokedOnceEach ==
    ebPub.state # "idle" =>
        \A h \in HandlerNames : Count(ebPub.invoked, h) = Count(ebPub.subscribed, h)

ResolvesAfterAllSettled == ebPub.state = "resolved" => ebPub.unsettled = {}

NeverRejects == ebPub.state # "rejected"

\* no handler whose subscriptions had all been taken back was invoked
RemovedNotInvoked ==
    ebPub.state # "idle" =>
        \A k \in 1..Len(ebPub.invoked) : ebPub.invoked[k] \in ebPub.live

\* no unsubscribe function has removed more than one entry
RemovesOnlyItsOwn == \A u \in 1..Len(ebSubs) : ebSubs[u].removed <= 1

\* C30: publish invokes every handler subscribed to the event's type exactly
\* once and resolves only after all have settled; a handler that throws or
\* rejects neither keeps the others from running nor makes publish reject; a
\* handler removed through the function subscribe returned is not invoked by
\* later publishes, and calling that function twice removes nothing else.
C30_PublishAndUnsubscribe ==
    /\ InvokedOnceEach
    /\ ResolvesAfterAllSettled
    /\ NeverRejects
    /\ RemovedNotInvoked
    /\ RemovesOnlyItsOwn

\* the same when no handler function is subscribed twice to one type and no
\* handler takes its subscription back while publish runs
DistinctHandlers ==
    \A u, v \in 1..Len(ebSubs) :
        (u # v /\ ebSubs[u].type = ebSubs[v].type) => ebSubs[u].handler # ebSubs[v].handler

Bus_HoldsForDistinctPassiveHandlers ==
    (DistinctHandlers /\ \A u \in 1..Len(ebSubs) : ebSubs[u].handler # "once") =>
        C30_PublishAndUnsubscribe

\* whatever the handlers are: publish waits for all it invoked and does not reject
Bus_WaitsAndNeverRejects == ResolvesAfterAllSettled /\ NeverRejects

Bus_Witness ==
    /\ ebPub.state = "resolved"
    /\ ebPub.n = 2
    /\ ebPub.invoked = <<"throws", "save">>
    /\ ebPub.logged = 1
    /\ \E u \in 1..Len(ebSubs) :
          /\ ebSubs[u].type = ebPub.type /\ ebSubs[u].handler = "rejects"
          /\ ebSubs[u].calls = 2 /\ ebSubs[u].removed = 1

====
